---- MODULE Spec2Model ----
(***************************************************************************)
(* Commitment lifecycle tracking and contradiction detection of the        *)
(* C2-Graph prototype: the constraint validator                            *)
(* (constraint_validator.py) and the baseline analyser                     *)
(* (c2_graph_baseline.py) replaying one meeting's utterance events.        *)
(*                                                                         *)
(* One Utter step is one utterance of the meeting reaching both            *)
(* analysers: it is one iteration of analyse_meeting's loop over           *)
(* meeting.utterances and one iteration of _validate_commitment's loop     *)
(* over the events of that utterance's commitment (MeetingRecord.          *)
(* commitments() keeps each commitment's events in utterance order and     *)
(* every commitment has a context object of its own).  Finish is the end   *)
(* of the meeting: the code after both loops.  Rerun is a second call of   *)
(* both analysers on the same record, computed as the code computes it:    *)
(* from fresh collections, as functions of the utterances.  Give and        *)
(* Construct build a MeetingRecord from a list of events handed over in    *)
(* any order.                                                              *)
(***************************************************************************)
EXTENDS Integers, Sequences, FiniteSets, TLC

\* ------------------------------------------------------------------ bounds
MaxEvents == 4

\* ------------------------------------------------------------------ values
NoneV == "None"
Speakers == {"Alice", "Bob"}
AllCids == {"C1", "C2"}
Acts == {"ASSIGN", "CONFIRM", "REVISE", "CANCEL", "OTHER"}

UNASSIGNED == "UNASSIGNED"
ASSIGNED_PENDING == "ASSIGNED_PENDING"
CONFIRMED == "CONFIRMED"
REVISED_PENDING == "REVISED_PENDING"
CANCELLED == "CANCELLED"
CommitmentStateEnum ==
    {UNASSIGNED, ASSIGNED_PENDING, CONFIRMED, REVISED_PENDING, CANCELLED}

\* Python's `a or b` on Optional[str]: a when it is set, else b.
Or(a, b) == IF a # NoneV THEN a ELSE b

\* ------------------------------------------------------------------ events
\* UtteranceEvent, the fields the analysers read.
Event(turn, speaker, act, cid, owner, due, new_owner, new_due) ==
    [turn |-> turn, speaker |-> speaker, act |-> act, commitment_id |-> cid,
     owner |-> owner, due |-> due, new_owner |-> new_owner, new_due |-> new_due]

\* UtteranceEvent.__post_init__: what a constructed event satisfies.
ValidEvent(e) ==
    /\ e.turn >= 1
    /\ e.act \in Acts
    /\ (e.act \in {"ASSIGN", "CONFIRM", "REVISE", "CANCEL"} => e.commitment_id # NoneV)
    /\ (e.act = "ASSIGN" => e.owner # NoneV)
    /\ (e.act = "REVISE" => (e.new_owner # NoneV \/ e.new_due # NoneV))

\* The events of one turn that the model draws from: every act, every speaker,
\* the commitment ids of `cids`, owners among the speakers, dues among `dues`.
EventsAt(turn, cids, dues) ==
    LET opt(S) == S \cup {NoneV}
        assign  == {Event(turn, s, "ASSIGN", c, o, d, NoneV, NoneV) :
                        s \in Speakers, c \in cids, o \in Speakers, d \in opt(dues)}
        confirm == {Event(turn, s, "CONFIRM", c, o, NoneV, NoneV, NoneV) :
                        s \in Speakers, c \in cids, o \in opt(Speakers)}
        revise  == {Event(turn, s, "REVISE", c, NoneV, NoneV, no, nd) :
                        s \in Speakers, c \in cids, no \in opt(Speakers), nd \in opt(dues)}
        cancel  == {Event(turn, s, "CANCEL", c, NoneV, NoneV, NoneV, NoneV) :
                        s \in Speakers, c \in cids}
        other   == {Event(turn, s, "OTHER", c, NoneV, NoneV, NoneV, NoneV) :
                        s \in Speakers, c \in opt(cids)}
    IN {e \in assign \cup confirm \cup revise \cup cancel \cup other : ValidEvent(e)}

\* ------------------------------------------------- MeetingRecord.commitments
\* The events of `utts` that reference commitment id `cid`, in order.
Bucket(utts, cid) == SelectSeq(utts, LAMBDA e : e.commitment_id = cid)

RECURSIVE BucketKeys_lifecycle(_)
\* Mutant of BucketKeys: an id referenced by an OTHER utterance only gets no
\* bucket.
BucketKeys_lifecycle(utts) ==
    IF utts = <<>> THEN <<>>
    ELSE LET n    == Len(utts)
             init == BucketKeys_lifecycle(SubSeq(utts, 1, n - 1))
             cid  == utts[n].commitment_id
         IN IF cid = NoneV \/ utts[n].act = "OTHER"
               \/ (\E i \in 1..Len(init) : init[i] = cid)
            THEN init ELSE Append(init, cid)

RECURSIVE BucketKeys(_)
\* The keys of commitments(): the distinct commitment ids of `utts`, in order of
\* first reference (events without a commitment id are left out).
BucketKeys(utts) ==
    IF utts = <<>> THEN <<>>
    ELSE LET n    == Len(utts)
             init == BucketKeys(SubSeq(utts, 1, n - 1))
             cid  == utts[n].commitment_id
         IN IF cid = NoneV \/ (\E i \in 1..Len(init) : init[i] = cid)
            THEN init ELSE Append(init, cid)

\* Mutant of insert_by_turn: an event goes before the events of the same turn.
insert_by_turn_before(sorted, ev) ==
    LET k == Cardinality({i \in 1..Len(sorted) : sorted[i].turn < ev.turn})
    IN SubSeq(sorted, 1, k) \o <<ev>> \o SubSeq(sorted, k + 1, Len(sorted))

\* One insertion of list.sort on a short list (binary insertion sort): `ev` goes
\* right after the last event whose turn is not greater than its own.
insert_by_turn(sorted, ev) ==
    LET k == Cardinality({i \in 1..Len(sorted) : sorted[i].turn <= ev.turn})
    IN SubSeq(sorted, 1, k) \o <<ev>> \o SubSeq(sorted, k + 1, Len(sorted))

RECURSIVE sort_by_turn(_)
\* parsed_utterances.sort(key=lambda ev: ev.turn): the stable sort by turn.
sort_by_turn(events) ==
    IF events = <<>> THEN <<>>
    ELSE LET n == Len(events)
         IN insert_by_turn(sort_by_turn(SubSeq(events, 1, n - 1)), events[n])

\* --------------------------------------------------- constraint_validator.py
\* Mutant of ALLOWED_TRANSITIONS: the REVISE row lacks CANCELLED -> REVISED_PENDING.
ALLOWED_TRANSITIONS_short(act) ==
    CASE act = "ASSIGN"  -> {<<UNASSIGNED, ASSIGNED_PENDING>>,
                             <<CANCELLED, ASSIGNED_PENDING>>}
      [] act = "CONFIRM" -> {<<ASSIGNED_PENDING, CONFIRMED>>,
                             <<REVISED_PENDING, CONFIRMED>>}
      [] act = "REVISE"  -> {<<ASSIGNED_PENDING, REVISED_PENDING>>,
                             <<CONFIRMED, REVISED_PENDING>>}
      [] act = "CANCEL"  -> {<<ASSIGNED_PENDING, CANCELLED>>,
                             <<CONFIRMED, CANCELLED>>,
                             <<REVISED_PENDING, CANCELLED>>}
      [] OTHER           -> {}

\* Mutant of ALLOWED_TRANSITIONS: the CANCEL row also permits
\* CANCELLED -> CANCELLED.
ALLOWED_TRANSITIONS_recancel(act) ==
    CASE act = "ASSIGN"  -> {<<UNASSIGNED, ASSIGNED_PENDING>>,
                             <<CANCELLED, ASSIGNED_PENDING>>}
      [] act = "CONFIRM" -> {<<ASSIGNED_PENDING, CONFIRMED>>,
                             <<REVISED_PENDING, CONFIRMED>>}
      [] act = "REVISE"  -> {<<ASSIGNED_PENDING, REVISED_PENDING>>,
                             <<CONFIRMED, REVISED_PENDING>>,
                             <<CANCELLED, REVISED_PENDING>>}
      [] act = "CANCEL"  -> {<<ASSIGNED_PENDING, CANCELLED>>,
                             <<CONFIRMED, CANCELLED>>,
                             <<REVISED_PENDING, CANCELLED>>,
                             <<CANCELLED, CANCELLED>>}
      [] OTHER           -> {}

\* ALLOWED_TRANSITIONS.get(act, ()): the permitted (from, to) pairs of an act.
ALLOWED_TRANSITIONS(act) ==
    CASE act = "ASSIGN"  -> {<<UNASSIGNED, ASSIGNED_PENDING>>,
                             <<CANCELLED, ASSIGNED_PENDING>>}
      [] act = "CONFIRM" -> {<<ASSIGNED_PENDING, CONFIRMED>>,
                             <<REVISED_PENDING, CONFIRMED>>}
      [] act = "REVISE"  -> {<<ASSIGNED_PENDING, REVISED_PENDING>>,
                             <<CONFIRMED, REVISED_PENDING>>,
                             <<CANCELLED, REVISED_PENDING>>}
      [] act = "CANCEL"  -> {<<ASSIGNED_PENDING, CANCELLED>>,
                             <<CONFIRMED, CANCELLED>>,
                             <<REVISED_PENDING, CANCELLED>>}
      [] OTHER           -> {}

\* CommitmentContext(commitment_id=cid): a fresh context.
CommitmentContext ==
    [owner |-> NoneV, due |-> NoneV, state |-> UNASSIGNED,
     requires_confirmation |-> FALSE]

\* ConstraintViolation; severity defaults to "error".
ConstraintViolation(cid, turn, type, speaker, severity) ==
    [commitment_id |-> cid, turn |-> turn, violation_type |-> type,
     speaker |-> speaker, severity |-> severity]

\* Mutant of next_state: the nominal state of a REVISE is ASSIGNED_PENDING.
next_state_revise(event) ==
    CASE event.act = "ASSIGN"  -> ASSIGNED_PENDING
      [] event.act = "CONFIRM" -> CONFIRMED
      [] event.act = "REVISE"  -> ASSIGNED_PENDING
      [] event.act = "CANCEL"  -> CANCELLED
      [] OTHER                 -> UNASSIGNED

\* ConstraintValidator._next_state
next_state(event) ==
    CASE event.act = "ASSIGN"  -> ASSIGNED_PENDING
      [] event.act = "CONFIRM" -> CONFIRMED
      [] event.act = "REVISE"  -> REVISED_PENDING
      [] event.act = "CANCEL"  -> CANCELLED
      [] OTHER                 -> UNASSIGNED

\* Mutant of transition_check: nothing is flagged while the commitment is
\* UNASSIGNED.
transition_check_lenient(cid, context, event) ==
    LET allowed    == ALLOWED_TRANSITIONS(event.act)
        transition == <<context.state, next_state(event)>>
    IN IF allowed # {} /\ transition \notin allowed /\ context.state # UNASSIGNED
       THEN <<ConstraintViolation(cid, event.turn, "invalid_transition",
                                  event.speaker, "error")>>
       ELSE <<>>

\* The transition-table check at the top of the loop body.
transition_check(cid, context, event) ==
    LET allowed    == ALLOWED_TRANSITIONS(event.act)
        transition == <<context.state, next_state(event)>>
    IN IF allowed # {} /\ transition \notin allowed
       THEN <<ConstraintViolation(cid, event.turn, "invalid_transition",
                                  event.speaker, "error")>>
       ELSE <<>>

\* Mutant of validate_cancel: unauthorized_cancel without the test that an
\* owner is recorded.
validate_cancel_noguard(cid, context, event) ==
    LET v(type) == <<ConstraintViolation(cid, event.turn, type, event.speaker, "error")>>
    IN (IF context.state = UNASSIGNED THEN v("cancel_without_assignment") ELSE <<>>)
       \o (IF event.speaker # context.owner THEN v("unauthorized_cancel") ELSE <<>>)
       \o (IF context.state = CANCELLED THEN v("duplicate_cancel") ELSE <<>>)
       \o (IF context.requires_confirmation
           THEN v("cancel_before_confirmation") ELSE <<>>)

\* Mutant of validate_cancel: cancel_before_confirmation as the last arm of
\* an else-if chain after unauthorized_cancel and duplicate_cancel.
validate_cancel_chain(cid, context, event) ==
    LET v(type) == <<ConstraintViolation(cid, event.turn, type, event.speaker, "error")>>
    IN (IF context.state = UNASSIGNED THEN v("cancel_without_assignment") ELSE <<>>)
       \o (IF context.owner # NoneV /\ event.speaker # context.owner
           THEN v("unauthorized_cancel")
           ELSE IF context.state = CANCELLED THEN v("duplicate_cancel")
           ELSE IF context.requires_confirmation
                THEN v("cancel_before_confirmation") ELSE <<>>)

\* ConstraintValidator._validate_cancel: the violations it appends, in order.
validate_cancel(cid, context, event) ==
    LET v(type) == <<ConstraintViolation(cid, event.turn, type, event.speaker, "error")>>
    IN (IF context.state = UNASSIGNED THEN v("cancel_without_assignment") ELSE <<>>)
       \o (IF context.owner # NoneV /\ event.speaker # context.owner
           THEN v("unauthorized_cancel") ELSE <<>>)
       \o (IF context.state = CANCELLED THEN v("duplicate_cancel") ELSE <<>>)
       \o (IF context.requires_confirmation
           THEN v("cancel_before_confirmation") ELSE <<>>)

\* Mutant of act_violations: CONFIRM and REVISE are flagged whenever the
\* commitment is not awaiting confirmation after an ASSIGN.
act_violations_pending(cid, context, event) ==
    LET v(type) == <<ConstraintViolation(cid, event.turn, type, event.speaker, "error")>>
    IN CASE event.act = "CONFIRM" ->
              IF context.state # ASSIGNED_PENDING THEN v("confirm_without_assign") ELSE <<>>
         [] event.act = "REVISE" ->
              IF context.state # ASSIGNED_PENDING THEN v("revise_without_assign") ELSE <<>>
         [] event.act = "CANCEL" -> validate_cancel(cid, context, event)
         [] OTHER -> <<>>

\* The violations the act-specific branch of the loop body appends.
act_violations(cid, context, event) ==
    LET v(type) == <<ConstraintViolation(cid, event.turn, type, event.speaker, "error")>>
    IN CASE event.act = "CONFIRM" ->
              IF context.state = UNASSIGNED THEN v("confirm_without_assign") ELSE <<>>
         [] event.act = "REVISE" ->
              IF context.state = UNASSIGNED THEN v("revise_without_assign") ELSE <<>>
         [] event.act = "CANCEL" -> validate_cancel(cid, context, event)
         [] OTHER -> <<>>

\* Mutant of apply_act: the CANCEL branch assigns a state that is no member
\* of the enumeration.
apply_act_undefined(context, event) ==
    CASE event.act = "ASSIGN" ->
           [owner |-> Or(event.owner, context.owner),
            due |-> Or(event.due, context.due),
            state |-> ASSIGNED_PENDING,
            requires_confirmation |-> TRUE]
      [] event.act = "CONFIRM" ->
           [context EXCEPT !.owner = Or(context.owner, Or(event.owner, event.speaker)),
                           !.requires_confirmation = FALSE,
                           !.state = CONFIRMED]
      [] event.act = "REVISE" ->
           [owner |-> IF event.new_owner # NoneV THEN event.new_owner ELSE context.owner,
            due |-> IF event.new_due # NoneV THEN event.new_due ELSE context.due,
            state |-> REVISED_PENDING,
            requires_confirmation |-> TRUE]
      [] event.act = "CANCEL" ->
           [context EXCEPT !.requires_confirmation = FALSE, !.state = "CANCELED"]
      [] OTHER -> context

\* Mutant of apply_act: the CONFIRM branch records the speaker as owner even
\* when an owner is on record.
apply_act_confirm_owner(context, event) ==
    CASE event.act = "ASSIGN" ->
           [owner |-> Or(event.owner, context.owner),
            due |-> Or(event.due, context.due),
            state |-> ASSIGNED_PENDING,
            requires_confirmation |-> TRUE]
      [] event.act = "CONFIRM" ->
           [context EXCEPT !.owner = Or(event.owner, event.speaker),
                           !.requires_confirmation = FALSE,
                           !.state = CONFIRMED]
      [] event.act = "REVISE" ->
           [owner |-> IF event.new_owner # NoneV THEN event.new_owner ELSE context.owner,
            due |-> IF event.new_due # NoneV THEN event.new_due ELSE context.due,
            state |-> REVISED_PENDING,
            requires_confirmation |-> TRUE]
      [] event.act = "CANCEL" ->
           [context EXCEPT !.requires_confirmation = FALSE, !.state = CANCELLED]
      [] OTHER -> context

\* Mutant of apply_act: an act other than the four lifecycle acts puts the
\* commitment back to UNASSIGNED, as _next_state would have it.
apply_act_other_resets(context, event) ==
    CASE event.act = "ASSIGN" ->
           [owner |-> Or(event.owner, context.owner),
            due |-> Or(event.due, context.due),
            state |-> ASSIGNED_PENDING,
            requires_confirmation |-> TRUE]
      [] event.act = "CONFIRM" ->
           [context EXCEPT !.owner = Or(context.owner, Or(event.owner, event.speaker)),
                           !.requires_confirmation = FALSE,
                           !.state = CONFIRMED]
      [] event.act = "REVISE" ->
           [owner |-> IF event.new_owner # NoneV THEN event.new_owner ELSE context.owner,
            due |-> IF event.new_due # NoneV THEN event.new_due ELSE context.due,
            state |-> REVISED_PENDING,
            requires_confirmation |-> TRUE]
      [] event.act = "CANCEL" ->
           [context EXCEPT !.requires_confirmation = FALSE, !.state = CANCELLED]
      [] OTHER -> [context EXCEPT !.state = UNASSIGNED]

\* Mutant of apply_act: the CANCEL branch leaves requires_confirmation as it is.
apply_act_keepflag(context, event) ==
    CASE event.act = "ASSIGN" ->
           [owner |-> Or(event.owner, context.owner),
            due |-> Or(event.due, context.due),
            state |-> ASSIGNED_PENDING,
            requires_confirmation |-> TRUE]
      [] event.act = "CONFIRM" ->
           [context EXCEPT !.owner = Or(context.owner, Or(event.owner, event.speaker)),
                           !.requires_confirmation = FALSE,
                           !.state = CONFIRMED]
      [] event.act = "REVISE" ->
           [owner |-> IF event.new_owner # NoneV THEN event.new_owner ELSE context.owner,
            due |-> IF event.new_due # NoneV THEN event.new_due ELSE context.due,
            state |-> REVISED_PENDING,
            requires_confirmation |-> TRUE]
      [] event.act = "CANCEL" -> [context EXCEPT !.state = CANCELLED]
      [] OTHER -> context

\* Mutant of apply_act: CONFIRM leaves the confirmation requirement as it is.
apply_act_confirm_keepflag(context, event) ==
    CASE event.act = "ASSIGN" ->
           [owner |-> Or(event.owner, context.owner),
            due |-> Or(event.due, context.due),
            state |-> ASSIGNED_PENDING,
            requires_confirmation |-> TRUE]
      [] event.act = "CONFIRM" ->
           [context EXCEPT !.owner = Or(context.owner, Or(event.owner, event.speaker)),
                           !.state = CONFIRMED]
      [] event.act = "REVISE" ->
           [owner |-> IF event.new_owner # NoneV THEN event.new_owner ELSE context.owner,
            due |-> IF event.new_due # NoneV THEN event.new_due ELSE context.due,
            state |-> REVISED_PENDING,
            requires_confirmation |-> TRUE]
      [] event.act = "CANCEL" ->
           [context EXCEPT !.requires_confirmation = FALSE, !.state = CANCELLED]
      [] OTHER -> context

\* Mutant of apply_act: REVISE keeps an owner and a due already recorded.
apply_act_revise_keep(context, event) ==
    CASE event.act = "ASSIGN" ->
           [owner |-> Or(event.owner, context.owner),
            due |-> Or(event.due, context.due),
            state |-> ASSIGNED_PENDING,
            requires_confirmation |-> TRUE]
      [] event.act = "CONFIRM" ->
           [context EXCEPT !.owner = Or(context.owner, Or(event.owner, event.speaker)),
                           !.requires_confirmation = FALSE,
                           !.state = CONFIRMED]
      [] event.act = "REVISE" ->
           [owner |-> Or(context.owner, event.new_owner),
            due |-> Or(context.due, event.new_due),
            state |-> REVISED_PENDING,
            requires_confirmation |-> TRUE]
      [] event.act = "CANCEL" ->
           [context EXCEPT !.requires_confirmation = FALSE, !.state = CANCELLED]
      [] OTHER -> context

\* The context after the act-specific branch of the loop body.
apply_act(context, event) ==
    CASE event.act = "ASSIGN" ->
           [owner |-> Or(event.owner, context.owner),
            due |-> Or(event.due, context.due),
            state |-> ASSIGNED_PENDING,
            requires_confirmation |-> TRUE]
      [] event.act = "CONFIRM" ->
           [context EXCEPT !.owner = Or(context.owner, Or(event.owner, event.speaker)),
                           !.requires_confirmation = FALSE,
                           !.state = CONFIRMED]
      [] event.act = "REVISE" ->
           [owner |-> IF event.new_owner # NoneV THEN event.new_owner ELSE context.owner,
            due |-> IF event.new_due # NoneV THEN event.new_due ELSE context.due,
            state |-> REVISED_PENDING,
            requires_confirmation |-> TRUE]
      [] event.act = "CANCEL" ->
           [context EXCEPT !.requires_confirmation = FALSE, !.state = CANCELLED]
      [] OTHER -> context

\* One iteration of _validate_commitment's loop: the violations appended.
validate_event(cid, context, event) ==
    transition_check(cid, context, event) \o act_violations(cid, context, event)

\* Mutant of missing_confirmation: the violation is raised as an error.
missing_confirmation_error(cid, context, events) ==
    IF context.requires_confirmation /\ events # <<>>
    THEN LET last_event == events[Len(events)]
         IN <<ConstraintViolation(cid, last_event.turn, "missing_confirmation",
                                  Or(context.owner, last_event.speaker), "error")>>
    ELSE <<>>

\* Mutant of missing_confirmation: reads the first event instead of the last.
missing_confirmation_first(cid, context, events) ==
    IF context.requires_confirmation /\ events # <<>>
    THEN LET last_event == events[1]
         IN <<ConstraintViolation(cid, last_event.turn, "missing_confirmation",
                                  Or(context.owner, last_event.speaker), "warning")>>
    ELSE <<>>

\* The code after _validate_commitment's loop.
missing_confirmation(cid, context, events) ==
    IF context.requires_confirmation /\ events # <<>>
    THEN LET last_event == events[Len(events)]
         IN <<ConstraintViolation(cid, last_event.turn, "missing_confirmation",
                                  Or(context.owner, last_event.speaker), "warning")>>
    ELSE <<>>

RECURSIVE iter_commitment_states_reset(_)
\* Mutant of iter_commitment_states: an act other than the four lifecycle acts
\* resets the state to UNASSIGNED.
iter_commitment_states_reset(events) ==
    IF events = <<>> THEN <<UNASSIGNED>>
    ELSE LET n      == Len(events)
             states == iter_commitment_states_reset(SubSeq(events, 1, n - 1))
             act    == events[n].act
             current == CASE act = "ASSIGN"  -> ASSIGNED_PENDING
                          [] act = "CONFIRM" -> CONFIRMED
                          [] act = "REVISE"  -> REVISED_PENDING
                          [] act = "CANCEL"  -> CANCELLED
                          [] OTHER           -> UNASSIGNED
         IN Append(states, current)

RECURSIVE iter_commitment_states_revise(_)
\* Mutant of iter_commitment_states: a REVISE is traced as ASSIGNED_PENDING.
iter_commitment_states_revise(events) ==
    IF events = <<>> THEN <<UNASSIGNED>>
    ELSE LET n      == Len(events)
             states == iter_commitment_states_revise(SubSeq(events, 1, n - 1))
             act    == events[n].act
             current == CASE act = "ASSIGN"  -> ASSIGNED_PENDING
                          [] act = "CONFIRM" -> CONFIRMED
                          [] act = "REVISE"  -> ASSIGNED_PENDING
                          [] act = "CANCEL"  -> CANCELLED
                          [] OTHER           -> states[Len(states)]
         IN Append(states, current)

RECURSIVE iter_commitment_states(_)
\* c2_models.iter_commitment_states: UNASSIGNED, then the state after each event.
iter_commitment_states(events) ==
    IF events = <<>> THEN <<UNASSIGNED>>
    ELSE LET n      == Len(events)
             states == iter_commitment_states(SubSeq(events, 1, n - 1))
             act    == events[n].act
             current == CASE act = "ASSIGN"  -> ASSIGNED_PENDING
                          [] act = "CONFIRM" -> CONFIRMED
                          [] act = "REVISE"  -> REVISED_PENDING
                          [] act = "CANCEL"  -> CANCELLED
                          [] OTHER           -> states[Len(states)]
         IN Append(states, current)

\* The value of a CommitmentStateEnum member, and the member of a value.
StateValue(state) ==
    CASE state = UNASSIGNED       -> 0
      [] state = ASSIGNED_PENDING -> 1
      [] state = CONFIRMED        -> 2
      [] state = REVISED_PENDING  -> 3
      [] state = CANCELLED        -> 4

StateOfValue(value) == CHOOSE state \in CommitmentStateEnum : StateValue(state) = value

RECURSIVE cp_solutions_free(_)
\* Mutant of cp_solutions: a step whose act has no table entry is left
\* unconstrained.
cp_solutions_free(events) ==
    IF events = <<>> THEN {<<StateValue(UNASSIGNED)>>}
    ELSE LET n       == Len(events)
             allowed == ALLOWED_TRANSITIONS(events[n].act)
             tuples  == {<<StateValue(t[1]), StateValue(t[2])>> : t \in allowed}
             next(w) == {y \in 0..4 : allowed = {} \/ <<w[Len(w)], y>> \in tuples}
         IN UNION {{Append(w, x) : x \in next(w)} :
                      w \in cp_solutions_free(SubSeq(events, 1, n - 1))}

RECURSIVE cp_solutions_first(_)
\* Mutant of cp_solutions: state_vars[0] is not constrained to UNASSIGNED.
cp_solutions_first(events) ==
    IF events = <<>> THEN {<<v>> : v \in 0..4}
    ELSE LET n       == Len(events)
             allowed == ALLOWED_TRANSITIONS(events[n].act)
             tuples  == {<<StateValue(t[1]), StateValue(t[2])>> : t \in allowed}
             next(w) == {y \in 0..4 : IF allowed = {}
                                       THEN y = w[Len(w)]
                                       ELSE <<w[Len(w)], y>> \in tuples}
         IN UNION {{Append(w, x) : x \in next(w)} :
                      w \in cp_solutions_first(SubSeq(events, 1, n - 1))}

RECURSIVE cp_solutions(_)
\* The satisfying assignments of the CP-SAT model _run_cp builds: state_vars[0]
\* is UNASSIGNED; a step whose act has a table entry takes one of its allowed
\* pairs; a step without one keeps the previous value.  Values are 0..4.
cp_solutions(events) ==
    IF events = <<>> THEN {<<StateValue(UNASSIGNED)>>}
    ELSE LET n       == Len(events)
             allowed == ALLOWED_TRANSITIONS(events[n].act)
             tuples  == {<<StateValue(t[1]), StateValue(t[2])>> : t \in allowed}
             next(w) == {y \in 0..4 : IF allowed = {}
                                       THEN y = w[Len(w)]
                                       ELSE <<w[Len(w)], y>> \in tuples}
         IN UNION {{Append(w, x) : x \in next(w)} :
                      w \in cp_solutions(SubSeq(events, 1, n - 1))}

\* Mutant of run_cp: without a backend the search is reported as inconclusive.
run_cp_noskip(events, backend, in_time) ==
    IF events = <<>>
    THEN {[status |-> "SKIPPED", states |-> <<>>]}
    ELSE IF ~backend \/ ~in_time THEN {[status |-> "UNKNOWN", states |-> <<>>]}
    ELSE IF cp_solutions(events) # {}
         THEN {[status |-> "FEASIBLE", states |-> w] : w \in cp_solutions(events)}
         ELSE {[status |-> "INFEASIBLE", states |-> <<>>]}

\* ConstraintValidator._run_cp.  `backend` is whether ortools was imported,
\* `in_time` whether the solver answered within max_time_in_seconds.  The
\* outcomes: the solver may return any satisfying assignment.
run_cp(events, backend, in_time) ==
    IF ~backend \/ events = <<>>
    THEN {[status |-> "SKIPPED", states |-> <<>>]}
    ELSE IF ~in_time THEN {[status |-> "UNKNOWN", states |-> <<>>]}
    ELSE IF cp_solutions(events) # {}
         THEN {[status |-> "FEASIBLE", states |-> w] : w \in cp_solutions(events)}
         ELSE {[status |-> "INFEASIBLE", states |-> <<>>]}

\* ------------------------------------------------------ c2_graph_baseline.py
\* CommitmentState(cid): a fresh baseline record (status defaults to "assigned").
CommitmentState(cid) ==
    [commitment_id |-> cid, owner |-> NoneV, due |-> NoneV, status |-> "assigned",
     history |-> <<>>, requires_confirmation |-> FALSE]

\* Mutant of Get: the lookup finds the record added last, whatever its id.
Get_last(commitments, cid) == Len(commitments)

\* commitments.get(cid): the index of cid's record in the insertion-ordered
\* dict (a sequence of records), 0 for None.
Get(commitments, cid) ==
    IF \E i \in 1..Len(commitments) : commitments[i].commitment_id = cid
    THEN CHOOSE i \in 1..Len(commitments) : commitments[i].commitment_id = cid
    ELSE 0

Contradiction(turn, cid, type, speaker) ==
    [turn |-> turn, commitment_id |-> cid, type |-> type, speaker |-> speaker]

\* Mutant of cancel_contradictions: the duplicate_cancel arm tests for a status
\* that is never set ("canceled").
cancel_contradictions_nodup(cid, state, exists, event) ==
    LET c(type) == <<[turn |-> event.turn, commitment_id |-> cid, type |-> type,
                      speaker |-> event.speaker]>>
    IN IF ~exists THEN c("cancel_without_assignment")
       ELSE (IF state.owner # NoneV /\ event.speaker # state.owner
             THEN c("unauthorized_cancel")
             ELSE IF state.status = "canceled" THEN c("duplicate_cancel") ELSE <<>>)
            \o (IF state.requires_confirmation
                THEN c("cancel_before_confirmation") ELSE <<>>)

\* The contradictions one iteration of analyse_meeting's loop appends for a
\* CANCEL; `state` is the record before the event, `exists` whether
\* commitments.get(cid) found one.
cancel_contradictions(cid, state, exists, event) ==
    LET c(type) == <<Contradiction(event.turn, cid, type, event.speaker)>>
    IN IF ~exists THEN c("cancel_without_assignment")
       ELSE (IF state.owner # NoneV /\ event.speaker # state.owner
             THEN c("unauthorized_cancel")
             ELSE IF state.status = "cancelled" THEN c("duplicate_cancel") ELSE <<>>)
            \o (IF state.requires_confirmation
                THEN c("cancel_before_confirmation") ELSE <<>>)

\* The contradictions one iteration of analyse_meeting's loop appends.
event_contradictions(cid, state, exists, event) ==
    IF event.act = "CANCEL" THEN cancel_contradictions(cid, state, exists, event)
    ELSE <<>>

\* Mutant of record: the history keeps the latest event only.
record_latest(state, event) == [state EXCEPT !.history = <<event>>]

\* CommitmentState.record
record(state, event) == [state EXCEPT !.history = Append(@, event)]

\* Mutant of analyse_event: a CONFIRM without a recorded owner records the
\* confirming speaker, whatever the event's owner field says.
analyse_event_speaker(state, event) ==
    CASE event.act = "ASSIGN" ->
           record([state EXCEPT !.owner = Or(event.owner, state.owner),
                                !.due = Or(event.due, state.due),
                                !.status = "assigned",
                                !.requires_confirmation = TRUE], event)
      [] event.act = "CONFIRM" ->
           record([state EXCEPT !.owner = Or(state.owner, event.speaker),
                                !.status = "confirmed",
                                !.requires_confirmation = FALSE], event)
      [] event.act = "REVISE" ->
           record([state EXCEPT
                     !.owner = IF event.new_owner # NoneV THEN event.new_owner ELSE @,
                     !.due = IF event.new_due # NoneV THEN event.new_due ELSE @,
                     !.status = "revised",
                     !.requires_confirmation = TRUE], event)
      [] event.act = "CANCEL" ->
           record([state EXCEPT !.status = "cancelled",
                                !.requires_confirmation = FALSE], event)
      [] OTHER -> record(state, event)

\* The record after one iteration of analyse_meeting's loop.
analyse_event(state, event) ==
    CASE event.act = "ASSIGN" ->
           record([state EXCEPT !.owner = Or(event.owner, state.owner),
                                !.due = Or(event.due, state.due),
                                !.status = "assigned",
                                !.requires_confirmation = TRUE], event)
      [] event.act = "CONFIRM" ->
           record([state EXCEPT !.owner = Or(state.owner, Or(event.owner, event.speaker)),
                                !.status = "confirmed",
                                !.requires_confirmation = FALSE], event)
      [] event.act = "REVISE" ->
           record([state EXCEPT
                     !.owner = IF event.new_owner # NoneV THEN event.new_owner ELSE @,
                     !.due = IF event.new_due # NoneV THEN event.new_due ELSE @,
                     !.status = "revised",
                     !.requires_confirmation = TRUE], event)
      [] event.act = "CANCEL" ->
           record([state EXCEPT !.status = "cancelled",
                                !.requires_confirmation = FALSE], event)
      [] OTHER -> record(state, event)

RECURSIVE baseline_missing_speaker(_)
\* Mutant of baseline_missing: attributes the entry to the last event's speaker.
baseline_missing_speaker(commitments) ==
    IF commitments = <<>> THEN <<>>
    ELSE LET n     == Len(commitments)
             state == commitments[n]
             last_event == state.history[Len(state.history)]
         IN baseline_missing_speaker(SubSeq(commitments, 1, n - 1))
            \o (IF state.requires_confirmation
                THEN <<[turn |-> last_event.turn, commitment_id |-> state.commitment_id,
                        type |-> "missing_confirmation",
                        speaker |-> last_event.speaker]>>
                ELSE <<>>)

RECURSIVE baseline_missing(_)
\* The loop over commitments.values() after the replay.
baseline_missing(commitments) ==
    IF commitments = <<>> THEN <<>>
    ELSE LET n     == Len(commitments)
             state == commitments[n]
             last_event == state.history[Len(state.history)]
         IN baseline_missing(SubSeq(commitments, 1, n - 1))
            \o (IF state.requires_confirmation
                THEN <<Contradiction(last_event.turn, state.commitment_id,
                                     "missing_confirmation",
                                     Or(state.owner, last_event.speaker))>>
                ELSE <<>>)

\* Mutant of summarise_metrics: contradicted_commitments counts the
\* contradictions instead of the distinct commitment ids.
summarise_metrics_count(commitments, contradictions) ==
    LET total_commitments == Len(commitments)
        types == {contradictions[i].type : i \in 1..Len(contradictions)}
        contradicted_commitments == Len(contradictions)
    IN [total_commitments |-> total_commitments,
        contradiction_count |-> Len(contradictions),
        contradicted_commitments |-> contradicted_commitments,
        contradiction_rate |-> IF total_commitments # 0
                               THEN <<contradicted_commitments, total_commitments>>
                               ELSE <<0, 1>>,
        contradiction_types |->
            [t \in types |-> Cardinality({i \in 1..Len(contradictions) :
                                            contradictions[i].type = t})]]

\* summarise_metrics.  contradiction_rate is kept as the fraction
\* <<numerator, denominator>>; 0.0 is <<0, 1>>.
summarise_metrics(commitments, contradictions) ==
    LET total_commitments == Len(commitments)
        ids   == {contradictions[i].commitment_id : i \in 1..Len(contradictions)}
        types == {contradictions[i].type : i \in 1..Len(contradictions)}
        contradicted_commitments == Cardinality(ids)
    IN [total_commitments |-> total_commitments,
        contradiction_count |-> Len(contradictions),
        contradicted_commitments |-> contradicted_commitments,
        contradiction_rate |-> IF total_commitments # 0
                               THEN <<contradicted_commitments, total_commitments>>
                               ELSE <<0, 1>>,
        contradiction_types |->
            [t \in types |-> Cardinality({i \in 1..Len(contradictions) :
                                            contradictions[i].type = t})]]

\* -------------------------------------------------------- c2_batch_report.py
RECURSIVE Sum(_)
\* Python's sum() of a list of integers.
Sum(numbers) ==
    IF numbers = <<>> THEN 0
    ELSE numbers[Len(numbers)] + Sum(SubSeq(numbers, 1, Len(numbers) - 1))

\* Mutant of aggregate_metrics: the rate is the mean of the meetings' rates.
aggregate_metrics_mean(results) ==
    LET field(name) == [i \in 1..Len(results) |-> results[i].metrics[name]]
        total_commitments    == Sum(field("total_commitments"))
        total_contradictions == Sum(field("contradiction_count"))
        total_contradicted   == Sum(field("contradicted_commitments"))
        types == UNION {DOMAIN results[i].metrics.contradiction_types :
                           i \in 1..Len(results)}
        count(i, key) == LET histogram == results[i].metrics.contradiction_types
                         IN IF key \in DOMAIN histogram THEN histogram[key] ELSE 0
        rate(i) == results[i].metrics.contradiction_rate
    IN [meetings |-> Len(results),
        total_commitments |-> total_commitments,
        contradiction_count |-> total_contradictions,
        contradicted_commitments |-> total_contradicted,
        contradiction_rate |-> IF Len(results) = 2
                               THEN <<rate(1)[1] * rate(2)[2] + rate(2)[1] * rate(1)[2],
                                      2 * rate(1)[2] * rate(2)[2]>>
                               ELSE rate(1),
        contradiction_types |->
            [key \in types |-> Sum([i \in 1..Len(results) |-> count(i, key)])]]

\* aggregate_metrics: `results` is the list of analyse_meeting results.
aggregate_metrics(results) ==
    LET field(name) == [i \in 1..Len(results) |-> results[i].metrics[name]]
        total_commitments    == Sum(field("total_commitments"))
        total_contradictions == Sum(field("contradiction_count"))
        total_contradicted   == Sum(field("contradicted_commitments"))
        types == UNION {DOMAIN results[i].metrics.contradiction_types :
                           i \in 1..Len(results)}
        count(i, key) == LET histogram == results[i].metrics.contradiction_types
                         IN IF key \in DOMAIN histogram THEN histogram[key] ELSE 0
    IN [meetings |-> Len(results),
        total_commitments |-> total_commitments,
        contradiction_count |-> total_contradictions,
        contradicted_commitments |-> total_contradicted,
        contradiction_rate |-> IF total_commitments # 0
                               THEN <<total_contradicted, total_commitments>>
                               ELSE <<0, 1>>,
        contradiction_types |->
            [key \in types |-> Sum([i \in 1..Len(results) |-> count(i, key)])]]

\* ------------------------------------------------------------------- state
VARIABLES
    utterances,      \* meeting.utterances so far (sorted by turn)
    ctx,             \* validator: the CommitmentContext of each commitment id
    vviol,           \* validator: _validate_commitment's violations list, per id
    commitments,     \* baseline: the commitments dict, in insertion order
    contradictions,  \* baseline: the contradictions list
    log,             \* per utterance: the contexts before/after and what was emitted
    pc,              \* "replay" while utterances are replayed, then "done"
    summary,         \* validator: the ConstraintSummary, once done
    metrics,         \* baseline: result["metrics"], once done
    enable_cp,       \* validator: self.enable_cp, once a validator is constructed
    previous,        \* the results of the earlier runs on this meeting
    given            \* the utterance list handed to MeetingRecord, when it is
                     \* built from a list in one go (Construct)

vars == <<utterances, ctx, vviol, commitments, contradictions, log, pc, summary, metrics,
          enable_cp, previous, given>>

NoSummary ==
    [total_commitments |-> 0, violation_count |-> 0, violations |-> <<>>,
     stages |-> [c \in {} |-> <<>>], cp_status |-> [c \in {} |-> "SKIPPED"]]

Init ==
    /\ utterances = <<>>
    /\ ctx = [cid \in AllCids |-> CommitmentContext]
    /\ vviol = [cid \in AllCids |-> <<>>]
    /\ commitments = <<>>
    /\ contradictions = <<>>
    /\ log = <<>>
    /\ pc = "replay"
    /\ summary = NoSummary
    /\ metrics = summarise_metrics(<<>>, <<>>)
    /\ enable_cp = FALSE
    /\ previous = <<>>
    /\ given = <<>>

\* A baseline record without its history, as the log keeps it.
Fields(state) ==
    [owner |-> state.owner, due |-> state.due, status |-> state.status,
     requires_confirmation |-> state.requires_confirmation]

\* One utterance: analyse_meeting's loop body and, for the utterance's
\* commitment, _validate_commitment's loop body.
Utter(event) ==
    /\ pc = "replay"
    /\ utterances' = Append(utterances, event)
    /\ LET cid == event.commitment_id IN
       IF cid = NoneV
       THEN /\ UNCHANGED <<ctx, vviol, commitments, contradictions>>
            /\ log' = Append(log, [event |-> event, pre |-> CommitmentContext,
                                   post |-> CommitmentContext, emitted |-> <<>>,
                                   bexists |-> FALSE, bpre |-> Fields(CommitmentState(cid)),
                                   bpost |-> Fields(CommitmentState(cid)),
                                   bemitted |-> <<>>])
       ELSE LET context == ctx[cid]
                emitted == validate_event(cid, context, event)
                i       == Get(commitments, cid)
                exists  == i # 0
                state   == IF exists THEN commitments[i] ELSE CommitmentState(cid)
                bemitted == event_contradictions(cid, state, exists, event)
            IN /\ ctx' = [ctx EXCEPT ![cid] = apply_act(context, event)]
               /\ vviol' = [vviol EXCEPT ![cid] = @ \o emitted]
               /\ commitments' = IF exists
                                 THEN [commitments EXCEPT ![i] = analyse_event(state, event)]
                                 ELSE Append(commitments, analyse_event(state, event))
               /\ contradictions' = contradictions \o bemitted
               /\ log' = Append(log, [event |-> event, pre |-> context,
                                      post |-> apply_act(context, event),
                                      emitted |-> emitted,
                                      bexists |-> exists, bpre |-> Fields(state),
                                      bpost |-> Fields(analyse_event(state, event)),
                                      bemitted |-> bemitted])
    /\ UNCHANGED <<pc, summary, metrics, enable_cp, previous, given>>

RECURSIVE validate_loop_unknown(_, _, _, _, _)
\* Mutant of validate_loop: an inconclusive search is treated as INFEASIBLE.
validate_loop_unknown(keys, utts, contexts, found, cp) ==
    IF keys = <<>> THEN <<>>
    ELSE LET n      == Len(keys)
             cid    == keys[n]
             events == Bucket(utts, cid)
         IN validate_loop_unknown(SubSeq(keys, 1, n - 1), utts, contexts, found, cp)
            \o found[cid]
            \o missing_confirmation(cid, contexts[cid], events)
            \o (IF cp[cid].status \in {"INFEASIBLE", "UNKNOWN"}
                THEN <<ConstraintViolation(cid, events[1].turn,
                                           "cp_infeasible_transition", NoneV, "error")>>
                ELSE <<>>)

RECURSIVE validate_loop(_, _, _, _, _)
\* ConstraintValidator.validate's loop over commitments().items(), for the keys
\* `keys`: the violations list it builds.  `cp[cid]` is _run_cp's result.
validate_loop(keys, utts, contexts, found, cp) ==
    IF keys = <<>> THEN <<>>
    ELSE LET n      == Len(keys)
             cid    == keys[n]
             events == Bucket(utts, cid)
         IN validate_loop(SubSeq(keys, 1, n - 1), utts, contexts, found, cp)
            \o found[cid]
            \o missing_confirmation(cid, contexts[cid], events)
            \o (IF cp[cid].status = "INFEASIBLE"
                THEN <<ConstraintViolation(cid, events[1].turn,
                                           "cp_infeasible_transition", NoneV, "error")>>
                ELSE <<>>)

\* The end of the meeting: the code after the replay loops of both analysers.
\* `backend`: enable_cp and ortools present, which the validator keeps as
\* self.enable_cp; `in_time`: the commitments whose search answers within the
\* time limit.
Finish(backend, in_time) ==
    /\ pc = "replay"
    /\ utterances # <<>>
    /\ pc' = "done"
    /\ enable_cp' = backend
    /\ LET keys   == BucketKeys(utterances)
           keyset == {keys[i] : i \in 1..Len(keys)}
           results == [cid \in keyset |->
                         run_cp(Bucket(utterances, cid), backend, cid \in in_time)]
       IN \E cp \in {f \in [keyset -> UNION {results[cid] : cid \in keyset}] :
                        \A cid \in keyset : f[cid] \in results[cid]} :
            LET violations == validate_loop(keys, utterances, ctx, vviol, cp)
            IN /\ vviol' = [cid \in AllCids |->
                              vviol[cid] \o missing_confirmation(cid, ctx[cid],
                                                                 Bucket(utterances, cid))]
               /\ summary' =
                    [total_commitments |-> Cardinality(keyset),
                     violation_count |-> Len(violations),
                     violations |-> violations,
                     stages |-> [cid \in keyset |->
                                   IF cp[cid].status = "FEASIBLE"
                                   THEN [i \in 1..Len(cp[cid].states) |->
                                           StateOfValue(cp[cid].states[i])]
                                   ELSE iter_commitment_states(Bucket(utterances, cid))],
                     cp_status |-> [cid \in keyset |-> cp[cid].status]]
    /\ LET found == contradictions \o baseline_missing(commitments)
       IN /\ contradictions' = found
          /\ metrics' = summarise_metrics(commitments, found)
    /\ UNCHANGED <<utterances, ctx, commitments, log, previous, given>>

\* ------------------------------------------------------- one run, as a whole
RECURSIVE replay_commitment(_, _)
\* _validate_commitment's loop over `events`, from the fresh context validate
\* hands it: the context it ends with and the violations it appended.
replay_commitment(cid, events) ==
    IF events = <<>> THEN [context |-> CommitmentContext, violations |-> <<>>]
    ELSE LET n     == Len(events)
             prev  == replay_commitment(cid, SubSeq(events, 1, n - 1))
             event == events[n]
         IN [context |-> apply_act(prev.context, event),
             violations |-> prev.violations \o validate_event(cid, prev.context, event)]

\* The results _run_cp may give for each commitment of `utts`.
cp_outcomes(utts, backend, in_time) ==
    LET keys    == BucketKeys(utts)
        keyset  == {keys[i] : i \in 1..Len(keys)}
        results == [cid \in keyset |-> run_cp(Bucket(utts, cid), backend, cid \in in_time)]
    IN {f \in [keyset -> UNION {results[cid] : cid \in keyset}] :
           \A cid \in keyset : f[cid] \in results[cid]}

\* ConstraintValidator.validate on a meeting with utterances `utts`, `cp[cid]`
\* being what _run_cp returns for cid (SKIPPED when enable_cp is off).
validate(utts, cp) ==
    LET keys     == BucketKeys(utts)
        keyset   == {keys[i] : i \in 1..Len(keys)}
        replayed == [cid \in keyset |-> replay_commitment(cid, Bucket(utts, cid))]
        violations ==
            validate_loop(keys, utts, [cid \in keyset |-> replayed[cid].context],
                          [cid \in keyset |-> replayed[cid].violations], cp)
    IN [total_commitments |-> Cardinality(keyset),
        violation_count |-> Len(violations),
        violations |-> violations,
        stages |-> [cid \in keyset |->
                      IF cp[cid].status = "FEASIBLE"
                      THEN [i \in 1..Len(cp[cid].states) |-> StateOfValue(cp[cid].states[i])]
                      ELSE iter_commitment_states(Bucket(utts, cid))],
        cp_status |-> [cid \in keyset |-> cp[cid].status]]

RECURSIVE analyse_loop(_)
\* analyse_meeting's loop over meeting.utterances, from empty collections.
analyse_loop(utts) ==
    IF utts = <<>> THEN [commitments |-> <<>>, contradictions |-> <<>>]
    ELSE LET n     == Len(utts)
             prev  == analyse_loop(SubSeq(utts, 1, n - 1))
             event == utts[n]
             cid   == event.commitment_id
             i     == Get(prev.commitments, cid)
             state == IF i # 0 THEN prev.commitments[i] ELSE CommitmentState(cid)
         IN IF cid = NoneV THEN prev
            ELSE [commitments |->
                     IF i # 0
                     THEN [prev.commitments EXCEPT ![i] = analyse_event(state, event)]
                     ELSE Append(prev.commitments, analyse_event(state, event)),
                  contradictions |->
                     prev.contradictions \o event_contradictions(cid, state, i # 0, event)]

\* analyse_meeting: the commitments, contradictions and metrics of its result.
analyse_meeting(utts) ==
    LET replayed == analyse_loop(utts)
        found    == replayed.contradictions \o baseline_missing(replayed.commitments)
    IN [commitments |-> replayed.commitments,
        contradictions |-> found,
        metrics |-> summarise_metrics(replayed.commitments, found)]

\* The results of the run on record, as `previous` keeps them.
Results ==
    [summary |-> summary, contradictions |-> contradictions, metrics |-> metrics]

\* Mutant of Rerun: the validator keeps its violations list from one run to
\* the next.
Rerun_carry(in_time) ==
    /\ pc = "done"
    /\ previous = <<>>
    /\ previous' = Append(previous, Results)
    /\ \E cp \in cp_outcomes(utterances, enable_cp, in_time) :
          LET fresh == validate(utterances, cp)
          IN summary' = [fresh EXCEPT
                           !.violations = summary.violations \o fresh.violations,
                           !.violation_count = Len(summary.violations)
                                               + Len(fresh.violations)]
    /\ LET replayed == [cid \in AllCids |->
                          replay_commitment(cid, Bucket(utterances, cid))]
       IN /\ ctx' = [cid \in AllCids |-> replayed[cid].context]
          /\ vviol' = [cid \in AllCids |->
                         replayed[cid].violations
                         \o missing_confirmation(cid, replayed[cid].context,
                                                 Bucket(utterances, cid))]
    /\ LET result == analyse_meeting(utterances)
       IN /\ commitments' = result.commitments
          /\ contradictions' = result.contradictions
          /\ metrics' = result.metrics
    /\ UNCHANGED <<utterances, log, pc, enable_cp, given>>

\* A second run of both analysers on the same MeetingRecord, with the same
\* validator object: validate and analyse_meeting start from fresh local
\* collections and contexts; the validator keeps nothing but enable_cp.
Rerun(in_time) ==
    /\ pc = "done"
    /\ previous = <<>>
    /\ previous' = Append(previous, Results)
    /\ \E cp \in cp_outcomes(utterances, enable_cp, in_time) :
          summary' = validate(utterances, cp)
    /\ LET replayed == [cid \in AllCids |->
                          replay_commitment(cid, Bucket(utterances, cid))]
       IN /\ ctx' = [cid \in AllCids |-> replayed[cid].context]
          /\ vviol' = [cid \in AllCids |->
                         replayed[cid].violations
                         \o missing_confirmation(cid, replayed[cid].context,
                                                 Bucket(utterances, cid))]
    /\ LET result == analyse_meeting(utterances)
       IN /\ commitments' = result.commitments
          /\ contradictions' = result.contradictions
          /\ metrics' = result.metrics
    /\ UNCHANGED <<utterances, log, pc, enable_cp, given>>

\* --------------------------------------------------------- specifications
\* The utterances drawn at a turn: one commitment, every act, both speakers.
SpecEvents(turn) ==
    {e \in EventsAt(turn, {"C1"}, {"d1"}) :
        /\ (e.act = "ASSIGN" => e.speaker = "Alice" /\ e.due = NoneV)
        /\ (e.act = "CONFIRM" => e.owner = NoneV)
        /\ (e.act = "REVISE" => /\ e.speaker = "Bob"
                                /\ e.new_owner \in {NoneV, "Alice"}
                                /\ (e.new_owner = NoneV \/ e.new_due = NoneV))
        /\ (e.act = "OTHER" => e.speaker = "Alice")}

Next ==
    \/ \E event \in SpecEvents(Len(utterances) + 1) :
          Len(utterances) < MaxEvents /\ Utter(event)
    \/ \E backend \in BOOLEAN, in_time \in {{}, AllCids} :
          (~backend => in_time = {}) /\ Finish(backend, in_time)

Spec == Init /\ [][Next]_vars

\* A meeting about two commitments: C1 is assigned to Alice, confirmed and
\* cancelled by Bob; C2 is cancelled by Carol or merely mentioned; an utterance
\* may reference no commitment.
MeetingEvents(turn) ==
    {Event(turn, s, "ASSIGN", "C1", "Alice", NoneV, NoneV, NoneV) : s \in Speakers}
    \cup {Event(turn, s, "CONFIRM", "C1", NoneV, NoneV, NoneV, NoneV) : s \in Speakers}
    \cup {Event(turn, "Bob", "CANCEL", "C1", NoneV, NoneV, NoneV, NoneV),
          Event(turn, "Carol", "CANCEL", "C2", NoneV, NoneV, NoneV, NoneV),
          Event(turn, "Alice", "OTHER", "C2", NoneV, NoneV, NoneV, NoneV),
          Event(turn, "Alice", "OTHER", NoneV, NoneV, NoneV, NoneV, NoneV)}

\* The meeting is analysed at its end, by a validator with or without the
\* search backend; the search of each commitment may or may not end in time.
NextMeeting ==
    \/ \E event \in MeetingEvents(Len(utterances) + 1) :
          Len(utterances) < MaxEvents /\ Utter(event)
    \/ \E backend \in BOOLEAN, in_time \in SUBSET AllCids :
          (~backend => in_time = {}) /\ Finish(backend, in_time)

SpecMeeting == Init /\ [][NextMeeting]_vars

\* The utterances of a meeting that is analysed twice.
TwiceEvents(turn) ==
    {Event(turn, "Alice", "ASSIGN", "C1", "Alice", NoneV, NoneV, NoneV),
     Event(turn, "Alice", "CONFIRM", "C1", NoneV, NoneV, NoneV, NoneV),
     Event(turn, "Bob", "CANCEL", "C1", NoneV, NoneV, NoneV, NoneV),
     Event(turn, "Carol", "CANCEL", "C2", NoneV, NoneV, NoneV, NoneV),
     Event(turn, "Alice", "OTHER", "C2", NoneV, NoneV, NoneV, NoneV)}

\* The meeting is analysed at its end and then a second time, by the same
\* validator; each search of each run may or may not end in time.
NextTwice ==
    \/ \E event \in TwiceEvents(Len(utterances) + 1) :
          Len(utterances) < MaxEvents /\ Utter(event)
    \/ \E backend \in BOOLEAN, in_time \in SUBSET AllCids :
          (~backend => in_time = {}) /\ Finish(backend, in_time)
    \/ \E in_time \in SUBSET AllCids :
          (~enable_cp => in_time = {}) /\ Rerun(in_time)

SpecTwice == Init /\ [][NextTwice]_vars

\* One commitment's act sequence: one utterance per act.
SearchEvents(turn) ==
    {Event(turn, "Alice", "ASSIGN", "C1", "Alice", NoneV, NoneV, NoneV),
     Event(turn, "Alice", "CONFIRM", "C1", NoneV, NoneV, NoneV, NoneV),
     Event(turn, "Alice", "REVISE", "C1", NoneV, NoneV, NoneV, "d1"),
     Event(turn, "Alice", "CANCEL", "C1", NoneV, NoneV, NoneV, NoneV),
     Event(turn, "Alice", "OTHER", "C1", NoneV, NoneV, NoneV, NoneV)}

\* Every act sequence of the commitment is handed to the cross-checker.
NextSearch ==
    \/ \E event \in SearchEvents(Len(utterances) + 1) :
          Len(utterances) < MaxEvents /\ Utter(event)
    \/ \E backend \in BOOLEAN, in_time \in SUBSET {"C1"} :
          (~backend => in_time = {}) /\ Finish(backend, in_time)

SpecSearch == Init /\ [][NextSearch]_vars

\* One more event is put on the list that a MeetingRecord will be built from.
Give(event) ==
    /\ pc = "replay"
    /\ utterances = <<>>
    /\ ValidEvent(event)
    /\ given' = Append(given, event)
    /\ UNCHANGED <<utterances, ctx, vviol, commitments, contradictions, log, pc,
                   summary, metrics, enable_cp, previous>>

\* MeetingRecord.__post_init__: the list must not be empty; the parsed events
\* are sorted by turn and become meeting.utterances.
Construct ==
    /\ pc = "replay"
    /\ utterances = <<>>
    /\ given # <<>>
    /\ utterances' = sort_by_turn(given)
    /\ UNCHANGED <<ctx, vviol, commitments, contradictions, log, pc, summary,
                   metrics, enable_cp, previous, given>>

\* The turns of the events handed over: free, equal turns included.
RecordTurns == {1, 2}

\* Events of two commitments, and one without a commitment, at any turn.
RecordEvents ==
    {Event(turn, "Alice", act, cid, IF act = "ASSIGN" THEN "Alice" ELSE NoneV,
           NoneV, NoneV, NoneV) :
        turn \in RecordTurns, act \in {"ASSIGN", "CANCEL"}, cid \in AllCids}
    \cup {Event(1, "Bob", "OTHER", NoneV, NoneV, NoneV, NoneV, NoneV)}

\* A list of events in any order, then the record built from it.
NextRecord ==
    \/ \E event \in RecordEvents : Len(given) < MaxEvents /\ Give(event)
    \/ Construct

SpecRecord == Init /\ [][NextRecord]_vars

\* One commitment whose events name owners and due dates: two ASSIGNs naming
\* different owners, CONFIRM with and without an owner field, REVISE with a
\* new owner or a new due, CANCEL by either speaker.
OwnerEvents(turn) ==
    {Event(turn, "Alice", "ASSIGN", "C1", "Alice", "d1", NoneV, NoneV),
     Event(turn, "Alice", "ASSIGN", "C1", "Bob", NoneV, NoneV, NoneV),
     Event(turn, "Alice", "ASSIGN", "C1", "Bob", "d2", NoneV, NoneV),
     Event(turn, "Bob", "CONFIRM", "C1", "Alice", NoneV, NoneV, NoneV),
     Event(turn, "Bob", "CONFIRM", "C1", NoneV, NoneV, NoneV, NoneV),
     Event(turn, "Alice", "REVISE", "C1", NoneV, NoneV, "Bob", NoneV),
     Event(turn, "Alice", "REVISE", "C1", NoneV, NoneV, NoneV, "d2"),
     Event(turn, "Alice", "CANCEL", "C1", NoneV, NoneV, NoneV, NoneV),
     Event(turn, "Bob", "CANCEL", "C1", NoneV, NoneV, NoneV, NoneV)}

\* The meeting is replayed and analysed without a search backend.
NextOwner ==
    \/ \E event \in OwnerEvents(Len(utterances) + 1) :
          Len(utterances) < MaxEvents /\ Utter(event)
    \/ Finish(FALSE, {})

SpecOwner == Init /\ [][NextOwner]_vars

\* ------------------------------------------------------------ claim helpers
\* The violations of one type in a validator list / a baseline list.
OfType(violations, type) == SelectSeq(violations, LAMBDA v : v.violation_type = type)
BOfType(found, type) == SelectSeq(found, LAMBDA c : c.type = type)

\* The utterances among the first k that reference commitment id cid.
Refs(k, cid) == {j \in 1..k : utterances[j].commitment_id = cid}

Max(S) == CHOOSE x \in S : \A y \in S : y <= x
Min(S) == CHOOSE x \in S : \A y \in S : x <= y

\* The owner on record for cid after the first k utterances, read off the
\* utterances: the owner named by the latest ASSIGN or REVISE-with-new_owner;
\* without any, the owner field or else the speaker of the first CONFIRM;
\* without any, none.
OwnerOnRecord(k, cid) ==
    LET setters  == {j \in Refs(k, cid) :
                        \/ utterances[j].act = "ASSIGN"
                        \/ utterances[j].act = "REVISE" /\ utterances[j].new_owner # NoneV}
        confirms == {j \in Refs(k, cid) : utterances[j].act = "CONFIRM"}
    IN IF setters # {}
       THEN LET e == utterances[Max(setters)]
            IN IF e.act = "ASSIGN" THEN e.owner ELSE e.new_owner
       ELSE IF confirms # {}
            THEN LET e == utterances[Min(confirms)]
                 IN IF e.owner # NoneV THEN e.owner ELSE e.speaker
            ELSE NoneV

\* The lifecycle acts (all but OTHER) of cid among the first k utterances.
Lifecycle(k, cid) == {j \in Refs(k, cid) : utterances[j].act # "OTHER"}

\* ------------------------------------------------------------------ claims
\* The statuses the baseline analyser gives a commitment.
BaselineStatuses == {"assigned", "confirmed", "revised", "cancelled"}

\* C1: processing is total.  Every valid event can be replayed from every
\* state of the forward pass, whatever was flagged before; every utterance
\* handed in has been replayed; every commitment is in one of the five
\* lifecycle states at every step (one of the four statuses in the baseline);
\* and the finished summary holds a full trace for every commitment referenced,
\* ending in one of the five states.
C1_Total ==
    /\ \A cid \in AllCids : ctx[cid].state \in CommitmentStateEnum
    /\ \A i \in 1..Len(commitments) : commitments[i].status \in BaselineStatuses
    /\ Len(log) = Len(utterances)
    /\ (pc = "replay" /\ Len(utterances) < MaxEvents) =>
          \A event \in SpecEvents(Len(utterances) + 1) : ENABLED Utter(event)
    /\ pc = "done" =>
          /\ DOMAIN summary.stages =
                {utterances[j].commitment_id : j \in 1..Len(utterances)} \ {NoneV}
          /\ \A cid \in DOMAIN summary.stages :
                LET trace == summary.stages[cid]
                IN /\ Len(trace) = Cardinality(Refs(Len(utterances), cid)) + 1
                   /\ \A k \in 1..Len(trace) : trace[k] \in CommitmentStateEnum
                   /\ trace[Len(trace)] = ctx[cid].state

\* C1 witness: a finished analysis of a meeting with an illegal transition.
C1_Witness ==
    /\ pc = "done"
    /\ Len(utterances) >= 3
    /\ OfType(summary.violations, "invalid_transition") # <<>>
    /\ ctx["C1"].state = CANCELLED

\* The states from which the claim's table permits an act.
C2_From(act) ==
    CASE act = "ASSIGN"  -> {UNASSIGNED, CANCELLED}
      [] act = "CONFIRM" -> {ASSIGNED_PENDING, REVISED_PENDING}
      [] act = "REVISE"  -> {ASSIGNED_PENDING, CONFIRMED, CANCELLED}
      [] act = "CANCEL"  -> {ASSIGNED_PENDING, CONFIRMED, REVISED_PENDING}

\* C2: for every ASSIGN/CONFIRM/REVISE/CANCEL event the validator emits
\* invalid_transition (once, first, with the event's turn and speaker) exactly
\* when the state before the event is not one the table permits the act from,
\* and the replay goes on to the act's nominal next state either way.
C2_InvalidTransition ==
    \A i \in 1..Len(log) :
       LET l == log[i]
           invalid == OfType(l.emitted, "invalid_transition")
       IN l.event.act # "OTHER" =>
            /\ (invalid # <<>>) <=> (l.pre.state \notin C2_From(l.event.act))
            /\ Len(invalid) <= 1
            /\ invalid # <<>> =>
                  /\ l.emitted[1].violation_type = "invalid_transition"
                  /\ invalid[1].turn = l.event.turn
                  /\ invalid[1].speaker = l.event.speaker
                  /\ invalid[1].severity = "error"
            /\ l.post.state = (CASE l.event.act = "ASSIGN"  -> ASSIGNED_PENDING
                                 [] l.event.act = "CONFIRM" -> CONFIRMED
                                 [] l.event.act = "REVISE"  -> REVISED_PENDING
                                 [] l.event.act = "CANCEL"  -> CANCELLED)

\* C2 witness: an illegal transition was flagged and a later event of the
\* same commitment was replayed after it, legally.
C2_Witness ==
    \E i, j \in 1..Len(log) :
       /\ i < j
       /\ log[i].event.commitment_id = log[j].event.commitment_id
       /\ OfType(log[i].emitted, "invalid_transition") # <<>>
       /\ log[j].event.act # "OTHER"
       /\ OfType(log[j].emitted, "invalid_transition") = <<>>

\* C3 (as claimed): a CANCEL on a commitment whose earlier events, if any,
\* are all OTHER yields cancel_without_assignment at the event's turn and
\* leaves the commitment cancelled, in the validator and in the baseline.
C3_CancelUnassigned ==
    \A i \in 1..Len(log) :
       LET l   == log[i]
           cid == l.event.commitment_id
       IN (l.event.act = "CANCEL" /\ Lifecycle(i - 1, cid) = {}) =>
            /\ \E k \in 1..Len(l.emitted) :
                  /\ l.emitted[k].violation_type = "cancel_without_assignment"
                  /\ l.emitted[k].turn = l.event.turn
            /\ l.post.state = CANCELLED
            /\ \E k \in 1..Len(l.bemitted) :
                  /\ l.bemitted[k].type = "cancel_without_assignment"
                  /\ l.bemitted[k].turn = l.event.turn
            /\ l.bpost.status = "cancelled"

\* C4: a CANCEL emits unauthorized_cancel exactly when an owner is on record
\* for the commitment (as last set by ASSIGN, CONFIRM or REVISE) and the
\* cancelling speaker is not that owner, in the validator and in the baseline.
C4_UnauthorizedCancel ==
    \A i \in 1..Len(log) :
       LET l     == log[i]
           owner == OwnerOnRecord(i - 1, l.event.commitment_id)
           unauthorized == owner # NoneV /\ l.event.speaker # owner
       IN l.event.act = "CANCEL" =>
            /\ l.pre.owner = owner
            /\ l.bpre.owner = owner
            /\ Len(OfType(l.emitted, "unauthorized_cancel")) = (IF unauthorized THEN 1 ELSE 0)
            /\ Len(BOfType(l.bemitted, "unauthorized_cancel")) = (IF unauthorized THEN 1 ELSE 0)

\* C4 witness: one CANCEL by a speaker who is not the recorded owner and
\* one CANCEL on a commitment without a recorded owner.
C4_Witness ==
    /\ \E i \in 1..Len(log) :
          /\ log[i].event.act = "CANCEL"
          /\ log[i].pre.owner \notin {NoneV, log[i].event.speaker}
          /\ OfType(log[i].emitted, "unauthorized_cancel") # <<>>
          /\ BOfType(log[i].bemitted, "unauthorized_cancel") # <<>>
    /\ \E i \in 1..Len(log) :
          /\ log[i].event.act = "CANCEL"
          /\ log[i].pre.owner = NoneV
          /\ log[i].bexists

\* C5 (as claimed): no CANCEL produces both unauthorized_cancel and
\* duplicate_cancel, in the validator and in the baseline.
C5_Exclusive ==
    \A i \in 1..Len(log) :
       /\ ~ /\ OfType(log[i].emitted, "unauthorized_cancel") # <<>>
            /\ OfType(log[i].emitted, "duplicate_cancel") # <<>>
       /\ ~ /\ BOfType(log[i].bemitted, "unauthorized_cancel") # <<>>
            /\ BOfType(log[i].bemitted, "duplicate_cancel") # <<>>

\* C6: for a commitment that was assigned to an owner and confirmed, two
\* consecutive CANCEL events by that owner yield no duplicate_cancel on the
\* first CANCEL and exactly one on the second, in the validator and in the
\* baseline.
C6_DuplicateCancel ==
    \A i, j \in 1..Len(log) :
       LET first  == log[i]
           second == log[j]
           cid    == first.event.commitment_id
       IN ( /\ i < j
            /\ first.event.act = "CANCEL"
            /\ second.event.act = "CANCEL"
            /\ second.event.commitment_id = cid
            /\ Refs(j - 1, cid) \ Refs(i, cid) = {}
            /\ Lifecycle(i - 1, cid) # {}
            /\ utterances[Max(Lifecycle(i - 1, cid))].act = "CONFIRM"
            /\ \E a \in Refs(i - 1, cid) : utterances[a].act = "ASSIGN"
            /\ first.event.speaker = OwnerOnRecord(i - 1, cid)
            /\ second.event.speaker = first.event.speaker )
          => /\ OfType(first.emitted, "duplicate_cancel") = <<>>
             /\ Len(OfType(second.emitted, "duplicate_cancel")) = 1
             /\ BOfType(first.bemitted, "duplicate_cancel") = <<>>
             /\ Len(BOfType(second.bemitted, "duplicate_cancel")) = 1

\* C6 witness: ASSIGN, CONFIRM, then two CANCELs by the owner, all replayed.
C6_Witness ==
    /\ Len(log) = 4
    /\ log[1].event.act = "ASSIGN"
    /\ log[2].event.act = "CONFIRM"
    /\ log[3].event.act = "CANCEL"
    /\ log[4].event.act = "CANCEL"
    /\ log[3].event.speaker = log[1].event.owner
    /\ log[4].event.speaker = log[1].event.owner
    /\ log[3].pre.state = CONFIRMED
    /\ OfType(log[4].emitted, "duplicate_cancel") # <<>>

\* C7: a CANCEL emits cancel_before_confirmation exactly when the flag is set
\* on its arrival, that is when the latest earlier ASSIGN/CONFIRM/REVISE/CANCEL
\* of the commitment is an ASSIGN or a REVISE; whether unauthorized_cancel
\* fires on the same event makes no difference.  Validator and baseline.
C7_CancelBeforeConfirmation ==
    \A i \in 1..Len(log) :
       LET l       == log[i]
           earlier == Lifecycle(i - 1, l.event.commitment_id)
           pending == /\ earlier # {}
                      /\ utterances[Max(earlier)].act \in {"ASSIGN", "REVISE"}
       IN l.event.act = "CANCEL" =>
            /\ l.pre.requires_confirmation = pending
            /\ Len(OfType(l.emitted, "cancel_before_confirmation")) =
                  (IF pending THEN 1 ELSE 0)
            /\ Len(BOfType(l.bemitted, "cancel_before_confirmation")) =
                  (IF pending THEN 1 ELSE 0)

\* C7 witness: a CANCEL that is both unauthorized and before confirmation.
C7_Witness ==
    \E i \in 1..Len(log) :
       /\ log[i].event.act = "CANCEL"
       /\ OfType(log[i].emitted, "unauthorized_cancel") # <<>>
       /\ OfType(log[i].emitted, "cancel_before_confirmation") # <<>>
       /\ BOfType(log[i].bemitted, "unauthorized_cancel") # <<>>
       /\ BOfType(log[i].bemitted, "cancel_before_confirmation") # <<>>

\* C8: right after any CANCEL the commitment is CANCELLED with the flag
\* cleared, whatever was flagged, and the cancel checks read the state, owner
\* and flag from before that change: duplicate_cancel only for a commitment
\* that was already cancelled, cancel_before_confirmation only when the flag
\* was set, owner untouched.
C8_CancelSucceeds ==
    \A i \in 1..Len(log) :
       LET l == log[i]
       IN l.event.act = "CANCEL" =>
            /\ l.post.state = CANCELLED
            /\ ~l.post.requires_confirmation
            /\ l.post.owner = l.pre.owner
            /\ l.bpost.status = "cancelled"
            /\ ~l.bpost.requires_confirmation
            /\ (i = Len(log) => /\ ctx[l.event.commitment_id] = l.post
                                /\ ctx[l.event.commitment_id].state = CANCELLED)
            /\ (OfType(l.emitted, "duplicate_cancel") # <<>>) <=> (l.pre.state = CANCELLED)
            /\ (OfType(l.emitted, "cancel_without_assignment") # <<>>)
                  <=> (l.pre.state = UNASSIGNED)
            /\ (OfType(l.emitted, "cancel_before_confirmation") # <<>>)
                  <=> l.pre.requires_confirmation
            /\ (BOfType(l.bemitted, "duplicate_cancel") # <<>>) => l.bpre.status = "cancelled"

\* C8 witness: a flagged CANCEL of a commitment awaiting confirmation.
C8_Witness ==
    \E i \in 1..Len(log) :
       /\ log[i].event.act = "CANCEL"
       /\ log[i].pre.requires_confirmation
       /\ Len(log[i].emitted) >= 2
       /\ ctx[log[i].event.commitment_id].state = CANCELLED

\* The missing_confirmation entries of commitment cid in a validator list / a
\* baseline list.
Missing(violations, cid) ==
    SelectSeq(violations, LAMBDA v : v.violation_type = "missing_confirmation"
                                     /\ v.commitment_id = cid)
BMissing(found, cid) ==
    SelectSeq(found, LAMBDA c : c.type = "missing_confirmation" /\ c.commitment_id = cid)

\* C9: after the replay, missing_confirmation is emitted for a commitment
\* exactly when its flag is still set; then there is one, at the turn of the
\* commitment's last event, with the recorded owner as speaker, or the last
\* event's speaker when no owner is recorded.  Validator and baseline.
C9_MissingConfirmation ==
    pc = "done" =>
       \A cid \in AllCids :
          LET refs == Refs(Len(utterances), cid)
              mc   == Missing(summary.violations, cid)
              bmc  == BMissing(contradictions, cid)
              i    == Get(commitments, cid)
          IN /\ Len(mc) = (IF ctx[cid].requires_confirmation THEN 1 ELSE 0)
             /\ Len(bmc) = (IF i # 0 /\ commitments[i].requires_confirmation THEN 1 ELSE 0)
             /\ Missing(vviol[cid], cid) = mc
             /\ mc # <<>> =>
                   LET last == utterances[Max(refs)]
                       owner == OwnerOnRecord(Len(utterances), cid)
                   IN /\ mc[1].turn = last.turn
                      /\ mc[1].speaker = (IF owner # NoneV THEN owner ELSE last.speaker)
                      /\ mc[1].severity = "warning"
                      /\ vviol[cid][Len(vviol[cid])] = mc[1]
             /\ bmc # <<>> =>
                   LET last == utterances[Max(refs)]
                       owner == OwnerOnRecord(Len(utterances), cid)
                   IN /\ bmc[1].turn = last.turn
                      /\ bmc[1].speaker = (IF owner # NoneV THEN owner ELSE last.speaker)

\* C9 witness: a finished meeting with a missing_confirmation for a
\* commitment without a recorded owner, whose last event is neither the
\* meeting's last utterance nor by the speaker of its first.
C9_Witness ==
    /\ pc = "done"
    /\ Missing(summary.violations, "C1") # <<>>
    /\ BMissing(contradictions, "C1") # <<>>
    /\ ctx["C1"].owner = NoneV
    /\ Missing(summary.violations, "C1")[1].turn < Len(utterances)
    /\ Missing(summary.violations, "C1")[1].speaker # utterances[1].speaker

\* C10 (as claimed): a commitment with an ASSIGN that no later CONFIRM of the
\* commitment follows ends with exactly one missing_confirmation, attributed
\* to the owner.  Validator and baseline.
C10_AssignUnconfirmed ==
    pc = "done" =>
       \A cid \in AllCids :
          LET refs == Refs(Len(utterances), cid)
          IN (\E a \in refs :
                 /\ utterances[a].act = "ASSIGN"
                 /\ \A b \in refs : b > a => utterances[b].act # "CONFIRM")
             => /\ Len(Missing(summary.violations, cid)) = 1
                /\ Missing(summary.violations, cid)[1].speaker =
                      OwnerOnRecord(Len(utterances), cid)
                /\ Len(BMissing(contradictions, cid)) = 1
                /\ BMissing(contradictions, cid)[1].speaker =
                      OwnerOnRecord(Len(utterances), cid)

\* C10 (amended): a commitment with an ASSIGN that neither a CONFIRM nor a
\* CANCEL of the commitment follows ends with exactly one missing_confirmation
\* warning, attributed to the owner then on record.  Validator and baseline.
C10_AssignPending ==
    pc = "done" =>
       \A cid \in AllCids :
          LET refs == Refs(Len(utterances), cid)
          IN (\E a \in refs :
                 /\ utterances[a].act = "ASSIGN"
                 /\ \A b \in refs : b > a => utterances[b].act \notin {"CONFIRM", "CANCEL"})
             => /\ Len(Missing(summary.violations, cid)) = 1
                /\ Missing(summary.violations, cid)[1].speaker =
                      OwnerOnRecord(Len(utterances), cid)
                /\ Missing(summary.violations, cid)[1].speaker # NoneV
                /\ Missing(summary.violations, cid)[1].severity = "warning"
                /\ Len(BMissing(contradictions, cid)) = 1
                /\ BMissing(contradictions, cid)[1].speaker =
                      OwnerOnRecord(Len(utterances), cid)

\* C10 witness: a finished meeting whose ASSIGN was followed by a REVISE that
\* named a new owner and by no CONFIRM or CANCEL.
C10_Witness ==
    /\ pc = "done"
    /\ \E a, r \in 1..Len(utterances) :
          /\ a < r
          /\ utterances[a].act = "ASSIGN"
          /\ utterances[r].act = "REVISE"
          /\ utterances[r].new_owner \notin {NoneV, utterances[a].owner}
          /\ \A b \in (a + 1)..Len(utterances) :
                utterances[b].act \notin {"CONFIRM", "CANCEL", "ASSIGN"}
    /\ Len(Missing(summary.violations, "C1")) = 1

\* What the claim asks of a state sequence s_0..s_n (here s[1]..s[n+1]) for
\* the events a_1..a_n of one commitment.
C11_Consistent(s, events) ==
    /\ s[1] = UNASSIGNED
    /\ \A i \in 1..Len(events) :
          IF ALLOWED_TRANSITIONS(events[i].act) # {}
          THEN <<s[i], s[i + 1]>> \in ALLOWED_TRANSITIONS(events[i].act)
          ELSE s[i + 1] = s[i]

\* C11: when the search of a commitment completes, its status is FEASIBLE
\* exactly when some sequence of n+1 lifecycle states starts at UNASSIGNED,
\* takes a permitted pair at every act with a table entry and keeps the state at
\* every other act, and INFEASIBLE exactly when there is none; the witness
\* reported for a FEASIBLE commitment is such a sequence, of length n+1.
C11_CrossCheck ==
    (pc = "done" /\ enable_cp) =>
       \A cid \in DOMAIN summary.cp_status :
          LET events == Bucket(utterances, cid)
              status == summary.cp_status[cid]
              exists == \E s \in [1..(Len(events) + 1) -> CommitmentStateEnum] :
                           C11_Consistent(s, events)
          IN /\ status \in {"FEASIBLE", "INFEASIBLE", "UNKNOWN"}
             /\ status # "UNKNOWN" =>
                   /\ (status = "FEASIBLE") <=> exists
                   /\ (status = "INFEASIBLE") <=> ~exists
             /\ status = "FEASIBLE" =>
                   /\ Len(summary.stages[cid]) = Len(events) + 1
                   /\ \A i \in 1..Len(summary.stages[cid]) :
                         summary.stages[cid][i] \in CommitmentStateEnum
                   /\ C11_Consistent(summary.stages[cid], events)

\* C11 witness: a search that completed with FEASIBLE on an act sequence that
\* starts with OTHER and re-assigns the commitment after a CANCEL.
C11_Witness ==
    /\ pc = "done"
    /\ enable_cp
    /\ Len(utterances) = 4
    /\ summary.cp_status["C1"] = "FEASIBLE"
    /\ utterances[1].act = "OTHER"
    /\ utterances[3].act = "CANCEL"
    /\ utterances[4].act = "ASSIGN"
    /\ summary.stages["C1"] =
          <<UNASSIGNED, UNASSIGNED, ASSIGNED_PENDING, CANCELLED, ASSIGNED_PENDING>>

\* The cp_infeasible_transition violations of commitment cid in the summary,
\* and the summary's other violations of cid: those of the forward pass.
CpViolations(cid) ==
    SelectSeq(summary.violations,
              LAMBDA v : v.violation_type = "cp_infeasible_transition"
                         /\ v.commitment_id = cid)
ForwardViolations(cid) ==
    SelectSeq(summary.violations,
              LAMBDA v : v.violation_type # "cp_infeasible_transition"
                         /\ v.commitment_id = cid)

\* The commitment ids the meeting's utterances reference.
Referenced == {utterances[j].commitment_id : j \in 1..Len(utterances)} \ {NoneV}

\* C12: the summary holds a cp_infeasible_transition violation for a commitment
\* exactly when the commitment's cross-check status is INFEASIBLE; then it holds
\* one, of severity error, at the turn of the commitment's first event.  No
\* other status adds one.
C12_Infeasible ==
    pc = "done" =>
       /\ DOMAIN summary.cp_status = Referenced
       /\ \A v \in {summary.violations[k] : k \in 1..Len(summary.violations)} :
             v.commitment_id \in Referenced
       /\ \A cid \in Referenced :
             LET cpv == CpViolations(cid)
             IN /\ (cpv # <<>>) <=> (summary.cp_status[cid] = "INFEASIBLE")
                /\ summary.cp_status[cid] \in {"UNKNOWN", "SKIPPED", "FEASIBLE"}
                      => cpv = <<>>
                /\ cpv # <<>> =>
                      /\ Len(cpv) = 1
                      /\ cpv[1].severity = "error"
                      /\ cpv[1].turn =
                            utterances[Min(Refs(Len(utterances), cid))].turn

\* C12 witness: one commitment found INFEASIBLE at its third event, its first
\* event being the meeting's second; the other commitment's search, on acts
\* that admit no state sequence, ran out of time.
C12_Witness ==
    /\ pc = "done"
    /\ Len(utterances) = 4
    /\ Referenced = {"C1", "C2"}
    /\ utterances[1].commitment_id = "C2"
    /\ utterances[1].act = "CANCEL"
    /\ summary.cp_status["C2"] = "UNKNOWN"
    /\ summary.cp_status["C1"] = "INFEASIBLE"
    /\ utterances[2].act = "ASSIGN"
    /\ utterances[3].act = "CONFIRM"
    /\ CpViolations("C1") # <<>>
    /\ CpViolations("C1")[1].turn = 2

\* The state trace of the forward pass for commitment cid: UNASSIGNED, then
\* the tracker's state after each event of the commitment.
ForwardTrace(cid) ==
    LET entries == SelectSeq(log, LAMBDA l : l.event.commitment_id = cid)
    IN [i \in 1..(Len(entries) + 1) |->
          IF i = 1 THEN UNASSIGNED ELSE entries[i - 1].post.state]

\* What the forward pass emitted for commitment cid, event after event.
RECURSIVE Emitted(_, _)
Emitted(k, cid) ==
    IF k = 0 THEN <<>>
    ELSE Emitted(k - 1, cid)
         \o (IF log[k].event.commitment_id = cid THEN log[k].emitted ELSE <<>>)

\* C13: the trace reported for a commitment is the cross-checker's witness when
\* the status is FEASIBLE (a sequence meeting the search's constraints) and the
\* forward pass's own state trace otherwise; whichever it is, the violations of
\* the forward pass are reported as the forward pass emitted them.
C13_Trace ==
    pc = "done" =>
       \A cid \in Referenced :
          LET events == Bucket(utterances, cid)
              status == summary.cp_status[cid]
          IN /\ status = "FEASIBLE" =>
                   /\ Len(summary.stages[cid]) = Len(events) + 1
                   /\ C11_Consistent(summary.stages[cid], events)
             /\ status \in {"INFEASIBLE", "UNKNOWN", "SKIPPED"} =>
                   summary.stages[cid] = ForwardTrace(cid)
             /\ ForwardViolations(cid) =
                   Emitted(Len(log), cid)
                   \o missing_confirmation(cid, ctx[cid], events)

\* C13 witness: one commitment FEASIBLE and reported with its witness, the
\* other INFEASIBLE and reported with the forward trace, which holds a pair the
\* table does not permit; both have violations from the forward pass.
C13_Witness ==
    /\ pc = "done"
    /\ Referenced = {"C1", "C2"}
    /\ summary.cp_status["C1"] = "FEASIBLE"
    /\ summary.cp_status["C2"] = "INFEASIBLE"
    /\ summary.stages["C1"] = <<UNASSIGNED, ASSIGNED_PENDING, CANCELLED>>
    /\ summary.stages["C2"] = <<UNASSIGNED, UNASSIGNED, CANCELLED>>
    /\ Len(ForwardViolations("C1")) = 2
    /\ ForwardViolations("C2") # <<>>

\* Every commitment's search skipped: what _run_cp gives without a backend.
AllSkipped == [cid \in Referenced |-> [status |-> "SKIPPED", states |-> <<>>]]

\* C14: without the backend the analysis completes all the same: every
\* commitment referenced has status SKIPPED and the forward trace, and the
\* summary is the one of the forward pass alone; with the backend the
\* violations other than cp_infeasible_transition, taken in order, are the
\* same list.
C14_NoBackend ==
    pc = "done" =>
       LET off == validate(utterances, AllSkipped)
           forward == SelectSeq(summary.violations,
                                LAMBDA v : v.violation_type # "cp_infeasible_transition")
       IN /\ ~enable_cp =>
                /\ DOMAIN summary.cp_status = Referenced
                /\ \A cid \in Referenced :
                      /\ summary.cp_status[cid] = "SKIPPED"
                      /\ summary.stages[cid] = ForwardTrace(cid)
                      /\ CpViolations(cid) = <<>>
                /\ summary = off
          /\ forward = off.violations
          /\ summary.total_commitments = off.total_commitments

\* C14 witness: an analysis without the backend that finished with violations
\* for two commitments, one of them on acts that admit no state sequence.
C14_Witness ==
    /\ pc = "done"
    /\ ~enable_cp
    /\ Referenced = {"C1", "C2"}
    /\ summary.cp_status["C2"] = "SKIPPED"
    /\ utterances[1].act = "CANCEL"
    /\ utterances[1].commitment_id = "C2"
    /\ ForwardViolations("C1") # <<>>
    /\ ForwardViolations("C2") # <<>>

\* The finished analysis of the meeting [ASSIGN(turn 1, C1, owner Alice),
\* CONFIRM(turn 2, C1), CANCEL(turn 3, C1, speaker Bob)].
C15_Meeting ==
    /\ pc = "done"
    /\ Len(utterances) = 3
    /\ \A j \in 1..3 : utterances[j].commitment_id = "C1" /\ utterances[j].turn = j
    /\ utterances[1].act = "ASSIGN"
    /\ utterances[1].owner = "Alice"
    /\ utterances[2].act = "CONFIRM"
    /\ utterances[3].act = "CANCEL"
    /\ utterances[3].speaker = "Bob"

\* C15: for that meeting, whoever speaks the first two utterances, the
\* validator and the baseline each report one violation, unauthorized_cancel
\* at turn 3; C1 ends CANCELLED; contradicted_commitments equals
\* total_commitments, both 1, so the contradiction rate is 1.
C15_Example ==
    C15_Meeting =>
       /\ summary.violation_count = 1
       /\ Len(summary.violations) = 1
       /\ summary.violations[1].violation_type = "unauthorized_cancel"
       /\ summary.violations[1].turn = 3
       /\ summary.violations[1].commitment_id = "C1"
       /\ ctx["C1"].state = CANCELLED
       /\ summary.stages["C1"][4] = CANCELLED
       /\ Len(contradictions) = 1
       /\ contradictions[1].type = "unauthorized_cancel"
       /\ contradictions[1].turn = 3
       /\ commitments[Get(commitments, "C1")].status = "cancelled"
       /\ metrics.total_commitments = 1
       /\ metrics.contradicted_commitments = metrics.total_commitments
       /\ metrics.contradiction_rate = <<1, 1>>

\* C15 witness: that meeting, with Bob confirming, analysed by a validator
\* whose search completed.
C15_Witness ==
    /\ C15_Meeting
    /\ utterances[1].speaker = "Bob"
    /\ utterances[2].speaker = "Bob"
    /\ summary.cp_status["C1"] = "FEASIBLE"

\* The finished analysis of the meeting [CANCEL(turn 1, C2, speaker Carol)].
C16_Meeting ==
    /\ pc = "done"
    /\ Len(utterances) = 1
    /\ utterances[1].act = "CANCEL"
    /\ utterances[1].commitment_id = "C2"
    /\ utterances[1].speaker = "Carol"
    /\ utterances[1].turn = 1

\* C16 (as claimed): for that meeting every violation reported is a
\* cancel_without_assignment and one is reported, by the validator and by the
\* baseline; C2 ends CANCELLED; total_commitments and contradicted_commitments
\* are 1.
C16_OnlyCancelWithoutAssignment ==
    C16_Meeting =>
       /\ summary.violations # <<>>
       /\ \A k \in 1..Len(summary.violations) :
             summary.violations[k].violation_type = "cancel_without_assignment"
       /\ contradictions # <<>>
       /\ \A k \in 1..Len(contradictions) :
             contradictions[k].type = "cancel_without_assignment"
       /\ ctx["C2"].state = CANCELLED
       /\ commitments[Get(commitments, "C2")].status = "cancelled"
       /\ summary.total_commitments = 1
       /\ metrics.total_commitments = 1
       /\ metrics.contradicted_commitments = 1

\* C16 (amended): for that meeting the validator reports invalid_transition
\* and then cancel_without_assignment, both at turn 1, followed by
\* cp_infeasible_transition exactly when the search completed, and nothing
\* else; the baseline reports cancel_without_assignment alone; C2 ends
\* CANCELLED; total_commitments and contradicted_commitments are 1.
C16_CancelAlone ==
    C16_Meeting =>
       /\ Len(ForwardViolations("C2")) = 2
       /\ summary.violations[1].violation_type = "invalid_transition"
       /\ summary.violations[2].violation_type = "cancel_without_assignment"
       /\ \A k \in 1..Len(summary.violations) :
             /\ summary.violations[k].turn = 1
             /\ summary.violations[k].commitment_id = "C2"
       /\ Len(summary.violations) =
             (IF summary.cp_status["C2"] = "INFEASIBLE" THEN 3 ELSE 2)
       /\ (summary.cp_status["C2"] = "INFEASIBLE")
             <=> (enable_cp /\ summary.cp_status["C2"] # "UNKNOWN")
       /\ Len(contradictions) = 1
       /\ contradictions[1].type = "cancel_without_assignment"
       /\ contradictions[1].turn = 1
       /\ ctx["C2"].state = CANCELLED
       /\ summary.stages["C2"] = <<UNASSIGNED, CANCELLED>>
       /\ commitments[Get(commitments, "C2")].status = "cancelled"
       /\ summary.total_commitments = 1
       /\ metrics.total_commitments = 1
       /\ metrics.contradicted_commitments = 1

\* C16 witness: that meeting, analysed by a validator whose search completed.
C16_Witness ==
    /\ C16_Meeting
    /\ summary.cp_status["C2"] = "INFEASIBLE"
    /\ summary.violation_count = 3

\* A rate <<numerator, denominator>> that is a number of [0, 1]; one that is 0;
\* two that are the same number.
RateInUnit(rate) == rate[2] > 0 /\ 0 <= rate[1] /\ rate[1] <= rate[2]
RateZero(rate) == rate[1] = 0
RateEq(r1, r2) == r1[1] * r2[2] = r2[1] * r1[2]

\* The two meetings a meeting about C1 and C2 falls into: the utterances that
\* do not reference C2, and those that do.
MeetingA == SelectSeq(utterances, LAMBDA e : e.commitment_id # "C2")
MeetingB == SelectSeq(utterances, LAMBDA e : e.commitment_id = "C2")

\* The batch reducer's aggregate over the two meetings analysed separately.
Aggregate == aggregate_metrics(<<analyse_meeting(MeetingA), analyse_meeting(MeetingB)>>)

\* C17 (as claimed): the contradiction rate of every meeting is in [0, 1],
\* contradicted_commitments does not exceed total_commitments, every
\* contradiction names a counted commitment, and the rate is 0 exactly when
\* total_commitments is 0.
C17_RateZeroIffEmpty ==
    pc = "done" =>
       /\ RateInUnit(metrics.contradiction_rate)
       /\ metrics.contradicted_commitments <= metrics.total_commitments
       /\ \A k \in 1..Len(contradictions) :
             Get(commitments, contradictions[k].commitment_id) # 0
       /\ RateZero(metrics.contradiction_rate) <=> (metrics.total_commitments = 0)

\* C17 (amended): the contradiction rate of every meeting, and of the batch
\* aggregate of two meetings, is in [0, 1]; contradicted_commitments does not
\* exceed total_commitments; every contradiction names a counted commitment;
\* the rate is 0 exactly when contradicted_commitments is 0, as it is whenever
\* total_commitments is 0, and is contradicted / total otherwise.
C17_Rate ==
    pc = "done" =>
       /\ RateInUnit(metrics.contradiction_rate)
       /\ metrics.contradicted_commitments <= metrics.total_commitments
       /\ \A k \in 1..Len(contradictions) :
             Get(commitments, contradictions[k].commitment_id) # 0
       /\ RateZero(metrics.contradiction_rate) <=> (metrics.contradicted_commitments = 0)
       /\ metrics.total_commitments = 0 => metrics.contradiction_rate = <<0, 1>>
       /\ metrics.total_commitments # 0 =>
             metrics.contradiction_rate =
                <<metrics.contradicted_commitments, metrics.total_commitments>>
       /\ (MeetingA # <<>> /\ MeetingB # <<>>) =>
             LET aggregate == Aggregate
             IN /\ RateInUnit(aggregate.contradiction_rate)
                /\ RateZero(aggregate.contradiction_rate)
                      <=> (aggregate.contradicted_commitments = 0)

\* C17 witness: a finished meeting with two commitments, one of them without
\* any contradiction and the other with two.
C17_Witness ==
    /\ pc = "done"
    /\ metrics.total_commitments = 2
    /\ metrics.contradicted_commitments = 1
    /\ metrics.contradiction_count = 2
    /\ metrics.contradiction_rate = <<1, 2>>

\* The contradiction types of the baseline analyser.
ContradictionTypes ==
    <<"cancel_without_assignment", "unauthorized_cancel", "duplicate_cancel",
      "cancel_before_confirmation", "missing_confirmation">>

\* C18: in every summary the counts agree with the contents.  The validator's
\* and the baseline's total_commitments are the number of distinct commitment
\* ids the utterances reference, by whatever act, and the trace map and the
\* status map have exactly those ids as keys; violation_count is the length of
\* the violation list; contradicted_commitments is the number of distinct ids
\* with a contradiction; the histogram counts each type and sums to the number
\* of contradictions.
C18_Counts ==
    pc = "done" =>
       LET histogram == metrics.contradiction_types
           OfKind(t) == {k \in 1..Len(contradictions) : contradictions[k].type = t}
       IN /\ summary.total_commitments = Cardinality(Referenced)
          /\ DOMAIN summary.stages = Referenced
          /\ DOMAIN summary.cp_status = Referenced
          /\ summary.violation_count = Len(summary.violations)
          /\ metrics.total_commitments = Cardinality(Referenced)
          /\ metrics.contradiction_count = Len(contradictions)
          /\ metrics.contradicted_commitments =
                Cardinality({cid \in AllCids :
                               \E k \in 1..Len(contradictions) :
                                  contradictions[k].commitment_id = cid})
          /\ DOMAIN histogram \subseteq
                {ContradictionTypes[i] : i \in 1..Len(ContradictionTypes)}
          /\ \A t \in DOMAIN histogram :
                histogram[t] = Cardinality(OfKind(t)) /\ histogram[t] > 0
          /\ Sum([i \in 1..Len(ContradictionTypes) |->
                    IF ContradictionTypes[i] \in DOMAIN histogram
                    THEN histogram[ContradictionTypes[i]] ELSE 0])
                = metrics.contradiction_count

\* C18 witness: a finished meeting in which C2 is referenced by OTHER
\* utterances only, an utterance references no commitment, and C1 has
\* contradictions of two types.
C18_Witness ==
    /\ pc = "done"
    /\ Len(utterances) = 4
    /\ \E j \in 1..4 : utterances[j].commitment_id = NoneV
    /\ \E j \in 1..4 : utterances[j].commitment_id = "C2"
    /\ \A j \in 1..4 : utterances[j].commitment_id = "C2" => utterances[j].act = "OTHER"
    /\ summary.total_commitments = 2
    /\ metrics.total_commitments = 2
    /\ metrics.contradiction_count = 2
    /\ Cardinality(DOMAIN metrics.contradiction_types) = 2

\* C19: for the two meetings a meeting falls into, whose commitment ids are
\* disjoint, the batch reducer's aggregate of the two separate analyses has
\* the total_commitments, contradiction_count, contradicted_commitments and
\* type histogram of the analysis of all utterances as one meeting, and its
\* rate is that analysis's rate: contradicted over total of the summed counts.
C19_Batch ==
    (pc = "done" /\ MeetingA # <<>> /\ MeetingB # <<>>) =>
       LET aggregate == Aggregate
       IN /\ aggregate.meetings = 2
          /\ aggregate.total_commitments = metrics.total_commitments
          /\ aggregate.contradiction_count = metrics.contradiction_count
          /\ aggregate.contradicted_commitments = metrics.contradicted_commitments
          /\ aggregate.contradiction_types = metrics.contradiction_types
          /\ RateEq(aggregate.contradiction_rate, metrics.contradiction_rate)
          /\ aggregate.total_commitments # 0 =>
                RateEq(aggregate.contradiction_rate,
                       <<aggregate.contradicted_commitments,
                         aggregate.total_commitments>>)

\* C19 witness: two meetings with contradictions of different types, their
\* utterances interleaved in the combined meeting.
C19_Witness ==
    /\ pc = "done"
    /\ Len(utterances) = 4
    /\ utterances[1].commitment_id = "C2"
    /\ utterances[2].commitment_id = "C1"
    /\ utterances[3].commitment_id = "C2"
    /\ utterances[4].commitment_id = "C1"
    /\ analyse_meeting(MeetingA).metrics.contradiction_count = 2
    /\ analyse_meeting(MeetingB).metrics.contradiction_count = 2
    /\ metrics.contradiction_count = 4
    /\ Cardinality(DOMAIN metrics.contradiction_types) >= 3

\* The violations of a summary that come from the forward pass.
ForwardPass(violations) ==
    SelectSeq(violations, LAMBDA v : v.violation_type # "cp_infeasible_transition")

\* C20 (as claimed): a second run on the same MeetingRecord gives the
\* violation list of the first (same elements, same order), the same traces
\* and statuses, and the same metrics.
C20_SameResults ==
    previous # <<>> =>
       /\ previous[1].summary.violations = summary.violations
       /\ previous[1].summary.stages = summary.stages
       /\ previous[1].summary.cp_status = summary.cp_status
       /\ previous[1].contradictions = contradictions
       /\ previous[1].metrics = metrics

\* C20 (amended): a second run on the same MeetingRecord gives the baseline's
\* contradictions and metrics of the first, the same forward-pass violations
\* in the same order, and the same commitments; when every search that ran out
\* of time in one run also did in the other, it gives the whole summary of the
\* first: violation list, traces and statuses.  Nothing the first run left
\* behind is read by the second.
C20_Deterministic ==
    previous # <<>> =>
       LET first == previous[1]
           same_budget ==
               \A cid \in DOMAIN summary.cp_status :
                  (first.summary.cp_status[cid] = "UNKNOWN")
                     <=> (summary.cp_status[cid] = "UNKNOWN")
       IN /\ first.contradictions = contradictions
          /\ first.metrics = metrics
          /\ ForwardPass(first.summary.violations) = ForwardPass(summary.violations)
          /\ first.summary.total_commitments = summary.total_commitments
          /\ DOMAIN first.summary.cp_status = DOMAIN summary.cp_status
          /\ same_budget => first.summary = summary

\* C20 witness: a meeting analysed twice, both runs with every search
\* completed: C1 left awaiting confirmation and FEASIBLE, C2 INFEASIBLE, both
\* with violations in both runs.
C20_Witness ==
    /\ previous # <<>>
    /\ Referenced = {"C1", "C2"}
    /\ previous[1].summary.cp_status["C1"] = "FEASIBLE"
    /\ summary.cp_status["C1"] = "FEASIBLE"
    /\ previous[1].summary.cp_status["C2"] = "INFEASIBLE"
    /\ summary.cp_status["C2"] = "INFEASIBLE"
    /\ ctx["C1"].requires_confirmation
    /\ Len(summary.violations) >= 4
    /\ Len(contradictions) >= 2

\* The entries of a validator list / a baseline list that name commitment cid.
About(violations, cid) == SelectSeq(violations, LAMBDA v : v.commitment_id = cid)

\* C21: commitments are independent.  What a finished analysis reports for a
\* commitment id (its violations in order, its final state, its trace, its
\* cross-check status; in the baseline its contradictions and its record) is
\* what the analysis of a meeting holding that commitment's events alone
\* reports, however the other commitment's events are interleaved and however
\* the other commitment's search ended.
C21_Independent ==
    pc = "done" =>
       \A cid \in Referenced :
          LET events   == Bucket(utterances, cid)
              baseline == analyse_meeting(events)
          IN /\ \E in_time \in BOOLEAN :
                   \E result \in run_cp(events, enable_cp, in_time) :
                      LET alone == validate(events, [c \in {cid} |-> result])
                      IN /\ alone.violations = About(summary.violations, cid)
                         /\ alone.stages[cid] = summary.stages[cid]
                         /\ alone.cp_status[cid] = summary.cp_status[cid]
             /\ replay_commitment(cid, events).context = ctx[cid]
             /\ baseline.contradictions = About(contradictions, cid)
             /\ baseline.commitments = <<commitments[Get(commitments, cid)]>>

\* C21 witness: two commitments with interleaved events; C1 is INFEASIBLE and
\* still awaiting confirmation, while the search of C2, which has violations
\* of its own, ran out of time.
C21_Witness ==
    /\ pc = "done"
    /\ Len(utterances) = 4
    /\ utterances[1].commitment_id = "C1"
    /\ utterances[2].commitment_id = "C2"
    /\ utterances[3].commitment_id = "C1"
    /\ utterances[4].commitment_id = "C2"
    /\ summary.cp_status["C1"] = "INFEASIBLE"
    /\ summary.cp_status["C2"] = "UNKNOWN"
    /\ ctx["C1"].requires_confirmation
    /\ Len(About(summary.violations, "C1")) >= 2
    /\ Len(About(summary.violations, "C2")) >= 2
    /\ About(contradictions, "C2") # <<>>

\* The positions of `utts` whose event references commitment cid.
Positions(utts, cid) == {j \in 1..Len(utts) : utts[j].commitment_id = cid}

\* The events of `events` that carry turn t, in order.
AtTurn(events, t) == SelectSeq(events, LAMBDA ev : ev.turn = t)

\* C22: a MeetingRecord built from events given in any order holds them sorted
\* ascending by turn, events of equal turn in the order they were given, and
\* each commitment's grouped list is the subsequence of that sorted sequence
\* that references the commitment id.
C22_Sorted ==
    (given # <<>> /\ utterances # <<>>) =>
       /\ Len(utterances) = Len(given)
       /\ \A i, j \in 1..Len(utterances) :
             i < j => utterances[i].turn <= utterances[j].turn
       /\ \A i \in 1..Len(given) :
             AtTurn(utterances, given[i].turn) = AtTurn(given, given[i].turn)
       /\ \A cid \in AllCids :
             LET at     == Positions(utterances, cid)
                 bucket == Bucket(utterances, cid)
             IN /\ Len(bucket) = Cardinality(at)
                /\ \A j \in at :
                      bucket[Cardinality({i \in at : i <= j})] = utterances[j]
                /\ (\E k \in 1..Len(BucketKeys(utterances)) :
                       BucketKeys(utterances)[k] = cid) <=> at # {}

\* C22 witness: the first event given has the later turn, the next two share
\* the earlier turn and differ, and both commitments are referenced.
C22_Witness ==
    /\ Len(given) = 3
    /\ given[1].turn = 2
    /\ given[2].turn = 1
    /\ given[3].turn = 1
    /\ given[2].commitment_id = "C1"
    /\ given[3].commitment_id = "C2"
    /\ given[1].commitment_id = "C1"
    /\ utterances = <<given[2], given[3], given[1]>>
    /\ Bucket(utterances, "C1") = <<given[2], given[1]>>

\* The violation types the validator knows.
ViolationTypes ==
    {"invalid_transition", "confirm_without_assign", "revise_without_assign",
     "cancel_without_assignment", "unauthorized_cancel", "duplicate_cancel",
     "cancel_before_confirmation", "missing_confirmation",
     "cp_infeasible_transition"}

\* The severity that goes with a violation type.
SeverityOf(type) == IF type = "missing_confirmation" THEN "warning" ELSE "error"

\* C23: the severity of a violation is determined by its type alone:
\* missing_confirmation is a warning, every other type is an error.  It holds
\* of every violation of the forward pass and of the finished summary.
C23_Severity ==
    /\ \A cid \in AllCids : \A i \in 1..Len(vviol[cid]) :
          /\ vviol[cid][i].violation_type \in ViolationTypes
          /\ vviol[cid][i].severity = SeverityOf(vviol[cid][i].violation_type)
    /\ \A i \in 1..Len(summary.violations) :
          /\ summary.violations[i].violation_type \in ViolationTypes
          /\ summary.violations[i].severity
                = SeverityOf(summary.violations[i].violation_type)

\* C23 witness: a finished summary that holds a missing_confirmation warning
\* next to an unauthorized_cancel and a cp_infeasible_transition error.
C23_Witness ==
    /\ pc = "done"
    /\ \E i \in 1..Len(summary.violations) :
          /\ summary.violations[i].violation_type = "missing_confirmation"
          /\ summary.violations[i].severity = "warning"
    /\ \E i \in 1..Len(summary.violations) :
          /\ summary.violations[i].violation_type = "unauthorized_cancel"
          /\ summary.violations[i].severity = "error"
    /\ \E i \in 1..Len(summary.violations) :
          /\ summary.violations[i].violation_type = "cp_infeasible_transition"
          /\ summary.violations[i].severity = "error"

\* C24: in the validator a CONFIRM emits confirm_without_assign exactly when
\* the commitment is UNASSIGNED before the event, and a REVISE emits
\* revise_without_assign exactly when it is UNASSIGNED before the event; either
\* way the commitment is afterwards CONFIRMED with the confirmation
\* requirement cleared, respectively REVISED_PENDING with it set.
C24_WithoutAssign ==
    \A i \in 1..Len(log) :
       LET e == log[i].event
       IN /\ e.act = "CONFIRM" =>
               /\ (OfType(log[i].emitted, "confirm_without_assign") # <<>>
                     <=> log[i].pre.state = UNASSIGNED)
               /\ Len(OfType(log[i].emitted, "confirm_without_assign")) <= 1
               /\ log[i].post.state = CONFIRMED
               /\ ~log[i].post.requires_confirmation
          /\ e.act = "REVISE" =>
               /\ (OfType(log[i].emitted, "revise_without_assign") # <<>>
                     <=> log[i].pre.state = UNASSIGNED)
               /\ Len(OfType(log[i].emitted, "revise_without_assign")) <= 1
               /\ log[i].post.state = REVISED_PENDING
               /\ log[i].post.requires_confirmation
          /\ e.act # "CONFIRM" => OfType(log[i].emitted, "confirm_without_assign") = <<>>
          /\ e.act # "REVISE" => OfType(log[i].emitted, "revise_without_assign") = <<>>

\* C24 witness: a REVISE and then a CONFIRM of a commitment never assigned
\* (only the REVISE is flagged), then a CANCEL and a REVISE of the cancelled
\* commitment, which is not flagged as revise_without_assign.
C24_Witness ==
    /\ Len(log) = 4
    /\ log[1].event.act = "REVISE"
    /\ OfType(log[1].emitted, "revise_without_assign") # <<>>
    /\ log[2].event.act = "CONFIRM"
    /\ log[2].pre.state = REVISED_PENDING
    /\ OfType(log[2].emitted, "confirm_without_assign") = <<>>
    /\ log[3].event.act = "CANCEL"
    /\ log[4].event.act = "REVISE"
    /\ log[4].pre.state = CANCELLED
    /\ log[4].emitted = <<>>
    /\ log[4].post.state = REVISED_PENDING

\* C25: an ASSIGN sets owner and due only when they are provided and not
\* already set: an ASSIGN on a commitment with a recorded owner leaves the
\* recorded owner and due as they are, in the validator and in the baseline.
C25_AssignKeepsOwner ==
    \A i \in 1..Len(log) :
       log[i].event.act = "ASSIGN" =>
          /\ log[i].pre.owner # NoneV => log[i].post.owner = log[i].pre.owner
          /\ log[i].pre.due # NoneV => log[i].post.due = log[i].pre.due
          /\ log[i].bpre.owner # NoneV => log[i].bpost.owner = log[i].bpre.owner
          /\ log[i].bpre.due # NoneV => log[i].bpost.due = log[i].bpre.due

\* Utterance j is a CANCEL of the commitment of utterance i, later than i, with
\* no ASSIGN and no REVISE naming a new owner in between.
CancelAfter(i, j) ==
    /\ i < j
    /\ log[j].event.act = "CANCEL"
    /\ log[j].event.commitment_id = log[i].event.commitment_id
    /\ \A k \in (i + 1)..(j - 1) :
          log[k].event.commitment_id = log[i].event.commitment_id =>
             /\ log[k].event.act # "ASSIGN"
             /\ ~(log[k].event.act = "REVISE" /\ log[k].event.new_owner # NoneV)

\* The CANCEL at utterance j is flagged unauthorized_cancel, by the validator
\* and by the baseline, exactly when its speaker is not `owner`.
JudgedAgainst(j, owner) ==
    /\ OfType(log[j].emitted, "unauthorized_cancel") # <<>>
          <=> log[j].event.speaker # owner
    /\ BOfType(log[j].bemitted, "unauthorized_cancel") # <<>>
          <=> log[j].event.speaker # owner

\* C26: a CONFIRM never changes an owner already recorded; without a recorded
\* owner it records the event's owner field if present, else the confirming
\* speaker; a later CANCEL of the commitment by anyone else is flagged
\* unauthorized_cancel (and one by that owner is not).
C26_ConfirmOwner ==
    \A i \in 1..Len(log) :
       LET e == log[i].event
           named == IF e.owner # NoneV THEN e.owner ELSE e.speaker
       IN e.act = "CONFIRM" =>
             /\ log[i].post.owner
                   = (IF log[i].pre.owner # NoneV THEN log[i].pre.owner ELSE named)
             /\ log[i].bpost.owner
                   = (IF log[i].bpre.owner # NoneV THEN log[i].bpre.owner ELSE named)
             /\ log[i].post.due = log[i].pre.due
             /\ log[i].bpost.due = log[i].bpre.due
             /\ \A j \in 1..Len(log) :
                   CancelAfter(i, j) => JudgedAgainst(j, log[i].post.owner)

\* C26 witness: Bob confirms a commitment nobody owns, naming Alice; Bob
\* confirms again, which leaves Alice the owner; Bob's CANCEL is flagged.
C26_Witness ==
    /\ Len(log) >= 3
    /\ log[1].event.act = "CONFIRM"
    /\ log[1].event.speaker = "Bob"
    /\ log[1].event.owner = "Alice"
    /\ log[1].pre.owner = NoneV
    /\ log[1].post.owner = "Alice"
    /\ log[2].event.act = "CONFIRM"
    /\ log[2].event.owner = NoneV
    /\ log[2].post.owner = "Alice"
    /\ log[2].bpost.owner = "Alice"
    /\ log[3].event.act = "CANCEL"
    /\ log[3].event.speaker = "Bob"
    /\ OfType(log[3].emitted, "unauthorized_cancel") # <<>>
    /\ BOfType(log[3].bemitted, "unauthorized_cancel") # <<>>

\* C27: a REVISE overwrites the recorded owner with new_owner when new_owner
\* is present and leaves it otherwise, and likewise the due with new_due; a
\* later CANCEL is judged against the owner on record after the REVISE, so
\* after a REVISE naming a new owner a CANCEL by the previous owner is flagged.
C27_ReviseOwner ==
    \A i \in 1..Len(log) :
       LET e == log[i].event
       IN e.act = "REVISE" =>
             /\ log[i].post.owner
                   = (IF e.new_owner # NoneV THEN e.new_owner ELSE log[i].pre.owner)
             /\ log[i].post.due
                   = (IF e.new_due # NoneV THEN e.new_due ELSE log[i].pre.due)
             /\ log[i].bpost.owner
                   = (IF e.new_owner # NoneV THEN e.new_owner ELSE log[i].bpre.owner)
             /\ log[i].bpost.due
                   = (IF e.new_due # NoneV THEN e.new_due ELSE log[i].bpre.due)
             /\ e.new_owner # NoneV =>
                   \A j \in 1..Len(log) :
                      CancelAfter(i, j) => JudgedAgainst(j, e.new_owner)

\* C27 witness: Alice's commitment, due d1, is revised to owner Bob (due kept),
\* then to due d2 (owner kept); the CANCEL by Alice, the previous owner, is
\* flagged by both analysers.
C27_Witness ==
    /\ Len(log) = 4
    /\ log[1].event.act = "ASSIGN"
    /\ log[1].post.owner = "Alice"
    /\ log[1].post.due = "d1"
    /\ log[2].event.act = "REVISE"
    /\ log[2].event.new_owner = "Bob"
    /\ log[2].post.owner = "Bob"
    /\ log[2].post.due = "d1"
    /\ log[3].event.act = "REVISE"
    /\ log[3].event.new_due = "d2"
    /\ log[3].post.owner = "Bob"
    /\ log[3].post.due = "d2"
    /\ log[3].bpost.owner = "Bob"
    /\ log[3].bpost.due = "d2"
    /\ log[4].event.act = "CANCEL"
    /\ log[4].event.speaker = "Alice"
    /\ OfType(log[4].emitted, "unauthorized_cancel") # <<>>
    /\ BOfType(log[4].bemitted, "unauthorized_cancel") # <<>>

\* C28: an OTHER event that references a commitment leaves its lifecycle
\* state, owner, due and confirmation flag as they are and emits no violation,
\* in the validator and in the baseline, and repeats the previous state in the
\* finished trace; a commitment whose events so far are all OTHER is
\* UNASSIGNED in the validator and in no assigned status in the baseline.
C28_OtherNoOp ==
    \A i \in 1..Len(log) :
       LET e == log[i].event
           cid == e.commitment_id
       IN (e.act = "OTHER" /\ cid # NoneV) =>
             /\ log[i].post = log[i].pre
             /\ log[i].emitted = <<>>
             /\ log[i].bpost = log[i].bpre
             /\ log[i].bemitted = <<>>
             /\ pc = "done" =>
                   LET k == Cardinality(Refs(i, cid))
                   IN summary.stages[cid][k + 1] = summary.stages[cid][k]
             /\ Lifecycle(i, cid) = {} =>
                   /\ log[i].post.state = UNASSIGNED
                   /\ log[i].bpost.status # "assigned"

\* C29: the baseline's history is append-only and complete.  At every step
\* there is one record for each commitment id referenced so far, in order of
\* first reference (created at the first event, never removed), and its
\* history is exactly the events processed so far that reference the id, in
\* turn order, whatever contradictions they produced; so its length is the
\* number of that commitment's events processed.
C29_History ==
    LET keys == BucketKeys(utterances)
    IN /\ Len(commitments) = Len(keys)
       /\ \A i \in 1..Len(commitments) :
             LET cid == commitments[i].commitment_id
             IN /\ cid = keys[i]
                /\ commitments[i].history = Bucket(utterances, cid)
                /\ Len(commitments[i].history)
                      = Cardinality(Refs(Len(utterances), cid))
                /\ \A k \in 1..(Len(commitments[i].history) - 1) :
                      commitments[i].history[k].turn
                         < commitments[i].history[k + 1].turn

\* C29 witness: four utterances, two for each of two commitments, an OTHER
\* among them, some of them flagged; both records hold their two events.
C29_Witness ==
    /\ Len(utterances) = 4
    /\ Len(commitments) = 2
    /\ commitments[1].commitment_id = "C1"
    /\ commitments[2].commitment_id = "C2"
    /\ Len(commitments[1].history) = 2
    /\ Len(commitments[2].history) = 2
    /\ utterances[1].commitment_id = "C1"
    /\ utterances[4].commitment_id = "C1"
    /\ \E k \in 1..2 : commitments[2].history[k].act = "OTHER"
    /\ BOfType(contradictions, "unauthorized_cancel") # <<>>
    /\ BOfType(contradictions, "cancel_without_assignment") # <<>>

\* The states in which a commitment awaits confirmation.
PendingStates == {ASSIGNED_PENDING, REVISED_PENDING}

\* C30: in the validator, after every processed event the confirmation flag
\* is set exactly when the commitment's state is ASSIGNED_PENDING or
\* REVISED_PENDING; so the finished summary holds a missing_confirmation for
\* exactly the commitments whose final state is one of the two, once each.
C30_FlagIffPending ==
    /\ \A cid \in AllCids :
          ctx[cid].requires_confirmation <=> ctx[cid].state \in PendingStates
    /\ \A i \in 1..Len(log) :
          log[i].post.requires_confirmation <=> log[i].post.state \in PendingStates
    /\ pc = "done" =>
          \A cid \in AllCids :
             LET missing == OfType(About(summary.violations, cid), "missing_confirmation")
                 trace   == summary.stages[cid]
                 pending == /\ Refs(Len(utterances), cid) # {}
                            /\ trace[Len(trace)] \in PendingStates
             IN Len(missing) = (IF pending THEN 1 ELSE 0)

\* C30 witness: a commitment assigned, confirmed, revised and then only talked
\* about: the flag follows the state at each step, and the summary, whose
\* trace ends in REVISED_PENDING, holds the missing_confirmation.
C30_Witness ==
    /\ pc = "done"
    /\ Len(log) = 4
    /\ log[1].post.state = ASSIGNED_PENDING /\ log[1].post.requires_confirmation
    /\ log[2].post.state = CONFIRMED /\ ~log[2].post.requires_confirmation
    /\ log[3].post.state = REVISED_PENDING /\ log[3].post.requires_confirmation
    /\ log[4].event.act = "OTHER"
    /\ summary.stages["C1"][5] = REVISED_PENDING
    /\ OfType(summary.violations, "missing_confirmation") # <<>>

\* C31: whenever the search of a commitment completes, it is FEASIBLE exactly
\* when the forward pass emitted no invalid_transition for the commitment and
\* INFEASIBLE exactly when it emitted at least one; so a summary never holds a
\* cp_infeasible_transition for a commitment without an invalid_transition.
C31_FeasibleIffValid ==
    pc = "done" =>
       \A cid \in Referenced :
          LET status  == summary.cp_status[cid]
              invalid == OfType(vviol[cid], "invalid_transition")
          IN /\ status \in {"FEASIBLE", "INFEASIBLE"} =>
                   /\ (status = "FEASIBLE") <=> (invalid = <<>>)
                   /\ (status = "INFEASIBLE") <=> (invalid # <<>>)
             /\ CpViolations(cid) # <<>> =>
                   OfType(About(summary.violations, cid), "invalid_transition") # <<>>

\* C31 witness: two completed searches.  ASSIGN, REVISE, CONFIRM, OTHER is
\* found FEASIBLE and has no invalid_transition ...
C31_Witness ==
    /\ pc = "done"
    /\ Len(utterances) = 4
    /\ utterances[1].act = "ASSIGN"
    /\ utterances[2].act = "REVISE"
    /\ utterances[3].act = "CONFIRM"
    /\ utterances[4].act = "OTHER"
    /\ summary.cp_status["C1"] = "FEASIBLE"
    /\ OfType(vviol["C1"], "invalid_transition") = <<>>

\* ... and ASSIGN, CANCEL, CANCEL is found INFEASIBLE, the forward pass having
\* flagged the second CANCEL as an invalid_transition.
C31_WitnessInfeasible ==
    /\ pc = "done"
    /\ Len(utterances) = 3
    /\ utterances[1].act = "ASSIGN"
    /\ utterances[2].act = "CANCEL"
    /\ utterances[3].act = "CANCEL"
    /\ summary.cp_status["C1"] = "INFEASIBLE"
    /\ Len(OfType(vviol["C1"], "invalid_transition")) = 1
    /\ CpViolations("C1") # <<>>

\* C32: whenever the search returns FEASIBLE, its witness is, position by
\* position, the trace of the forward replay of the same events: whichever
\* assignment the solver returns, the trace reported equals the tracker's
\* state after each event and the trace iter_commitment_states computes.
C32_WitnessIsReplay ==
    pc = "done" =>
       \A cid \in Referenced :
          summary.cp_status[cid] = "FEASIBLE" =>
             LET events == Bucket(utterances, cid)
                 replay == ForwardTrace(cid)
             IN /\ summary.stages[cid] = replay
                /\ iter_commitment_states(events) = replay
                /\ cp_solutions(events) # {}
                /\ \A w \in cp_solutions(events) :
                      /\ Len(w) = Len(replay)
                      /\ \A i \in 1..Len(w) : StateOfValue(w[i]) = replay[i]

\* C32 witness: a FEASIBLE search over OTHER, ASSIGN, CANCEL, REVISE, whose
\* witness is the replayed trace, the repeated UNASSIGNED included.
C32_Witness ==
    /\ pc = "done"
    /\ Len(utterances) = 4
    /\ utterances[1].act = "OTHER"
    /\ utterances[2].act = "ASSIGN"
    /\ utterances[3].act = "CANCEL"
    /\ utterances[4].act = "REVISE"
    /\ summary.cp_status["C1"] = "FEASIBLE"
    /\ cp_solutions(utterances) = {<<0, 0, 1, 4, 3>>}
    /\ summary.stages["C1"] =
          <<UNASSIGNED, UNASSIGNED, ASSIGNED_PENDING, CANCELLED, REVISED_PENDING>>
    /\ log[4].post.state = REVISED_PENDING

\* The violation types that only arise on a transition the table forbids.
TableBacked ==
    {"confirm_without_assign", "revise_without_assign",
     "cancel_without_assignment", "duplicate_cancel"}

\* In the list `violations`, every violation of a table-backed type comes
\* after an invalid_transition of the same commitment at the same turn.
AfterInvalid(violations) ==
    \A k \in 1..Len(violations) :
       violations[k].violation_type \in TableBacked =>
          \E j \in 1..(k - 1) :
             /\ violations[j].violation_type = "invalid_transition"
             /\ violations[j].commitment_id = violations[k].commitment_id
             /\ violations[j].turn = violations[k].turn

\* C33: in the validator every confirm_without_assign, revise_without_assign,
\* cancel_without_assignment and duplicate_cancel is accompanied by an
\* invalid_transition of the same commitment at the same turn, emitted before
\* it: in what one event emits, in the commitment's list and in the summary.
C33_AfterInvalid ==
    /\ \A i \in 1..Len(log) : AfterInvalid(log[i].emitted)
    /\ \A cid \in AllCids : AfterInvalid(vviol[cid])
    /\ AfterInvalid(summary.violations)

\* C33 witness: REVISE of an unassigned commitment, CANCEL, CANCEL.  The
\* finished summary holds a revise_without_assign and a duplicate_cancel, each
\* behind the invalid_transition of its turn.
C33_Witness ==
    /\ pc = "done"
    /\ Len(log) = 3
    /\ OfType(log[1].emitted, "revise_without_assign") # <<>>
    /\ OfType(log[1].emitted, "invalid_transition") # <<>>
    /\ log[2].event.act = "CANCEL"
    /\ OfType(log[3].emitted, "duplicate_cancel") # <<>>
    /\ log[3].emitted[1].violation_type = "invalid_transition"
    /\ OfType(summary.violations, "duplicate_cancel") # <<>>
    /\ Len(OfType(summary.violations, "invalid_transition")) = 2

\* The violation types among what one event emitted.
TypesOf(violations) == {violations[k].violation_type : k \in 1..Len(violations)}

\* C34: in the validator a commitment in state UNASSIGNED has no recorded
\* owner and a cleared confirmation flag, and UNASSIGNED is never re-entered
\* once left; hence one CANCEL never yields cancel_without_assignment together
\* with unauthorized_cancel, duplicate_cancel or cancel_before_confirmation,
\* nor duplicate_cancel together with cancel_before_confirmation.
C34_Unassigned ==
    /\ \A cid \in AllCids :
          ctx[cid].state = UNASSIGNED =>
             ctx[cid].owner = NoneV /\ ~ctx[cid].requires_confirmation
    /\ \A i \in 1..Len(log) :
          LET types == TypesOf(log[i].emitted)
          IN /\ log[i].pre.state = UNASSIGNED =>
                   log[i].pre.owner = NoneV /\ ~log[i].pre.requires_confirmation
             /\ log[i].pre.state # UNASSIGNED => log[i].post.state # UNASSIGNED
             /\ "cancel_without_assignment" \in types =>
                   types \cap {"unauthorized_cancel", "duplicate_cancel",
                               "cancel_before_confirmation"} = {}
             /\ "duplicate_cancel" \in types =>
                   "cancel_before_confirmation" \notin types

\* C34 witness: a commitment only talked about is cancelled (just
\* cancel_without_assignment next to the invalid_transition), talked about
\* again without becoming UNASSIGNED, and cancelled again (duplicate_cancel,
\* no cancel_before_confirmation).
C34_Witness ==
    /\ Len(log) = 4
    /\ log[1].event.act = "OTHER"
    /\ log[1].post.state = UNASSIGNED
    /\ log[2].event.act = "CANCEL"
    /\ TypesOf(log[2].emitted) = {"invalid_transition", "cancel_without_assignment"}
    /\ log[3].event.act = "OTHER"
    /\ log[3].post.state = CANCELLED
    /\ log[4].event.act = "CANCEL"
    /\ TypesOf(log[4].emitted) = {"invalid_transition", "duplicate_cancel"}

\* The rules the validator and the baseline analyser share.
SharedTypes ==
    {"cancel_without_assignment", "unauthorized_cancel", "duplicate_cancel",
     "cancel_before_confirmation", "missing_confirmation"}

\* How often the validator's summary, and how often the baseline's list,
\* holds an entry of commitment cid, turn, type and speaker.
ValidatorCount(cid, turn, type, speaker) ==
    Len(SelectSeq(summary.violations,
                  LAMBDA v : /\ v.commitment_id = cid /\ v.turn = turn
                             /\ v.violation_type = type /\ v.speaker = speaker))
BaselineCount(cid, turn, type, speaker) ==
    Len(SelectSeq(contradictions,
                  LAMBDA c : /\ c.commitment_id = cid /\ c.turn = turn
                             /\ c.type = type /\ c.speaker = speaker))

\* C35: the baseline and the validator agree on the shared rules: for every
\* finished meeting the entries of the five shared types, as a multiset of
\* commitment id, turn, type and speaker, are the same in the baseline's
\* contradictions and in the validator's forward pass, and both count the same
\* total_commitments.
C35_Agree ==
    pc = "done" =>
       /\ summary.total_commitments = metrics.total_commitments
       /\ \A cid \in AllCids, turn \in 1..Len(utterances), type \in SharedTypes,
             speaker \in Speakers :
             ValidatorCount(cid, turn, type, speaker)
                = BaselineCount(cid, turn, type, speaker)

\* C36: the trace iter_commitment_states computes and the state the tracker
\* holds agree step by step.  For the events of a commitment processed so far
\* the trace has one entry more than there are events, starts with UNASSIGNED,
\* its entry after the i-th event is the context's state after the i-th event,
\* and its last entry is the commitment's current (in the end: final) state.
C36_TraceIsContext ==
    \A cid \in AllCids :
       LET events  == Bucket(utterances, cid)
           trace   == iter_commitment_states(events)
           entries == SelectSeq(log, LAMBDA l : l.event.commitment_id = cid)
       IN /\ Len(trace) = Len(events) + 1
          /\ Len(entries) = Len(events)
          /\ trace[1] = UNASSIGNED
          /\ \A i \in 1..Len(events) :
                /\ trace[i] = entries[i].pre.state
                /\ trace[i + 1] = entries[i].post.state
          /\ trace[Len(trace)] = ctx[cid].state

\* C36 witness: the five acts of a finished meeting's commitment, OTHER twice;
\* the trace follows the context through every state.
C36_Witness ==
    /\ pc = "done"
    /\ Len(log) = 4
    /\ log[1].event.act = "ASSIGN"
    /\ log[2].event.act = "OTHER"
    /\ log[3].event.act = "REVISE"
    /\ log[4].event.act = "CANCEL"
    /\ log[2].post.state = ASSIGNED_PENDING
    /\ ctx["C1"].state = CANCELLED
    /\ iter_commitment_states(utterances) =
          <<UNASSIGNED, ASSIGNED_PENDING, ASSIGNED_PENDING, REVISED_PENDING, CANCELLED>>
====
